---- MODULE Spec2Model ----
(***************************************************************************)
(* Model of the templated email dispatch service of nup2112/email-system   *)
(* (src/email_system/email_service/service.py and the types it uses).      *)
(*                                                                         *)
(* One EmailService instance is constructed and then serves calls of send  *)
(* and send_batch.  A call is a sequence of steps: the entry of the        *)
(* method (validation, defaults, and for a non-personalized send the whole *)
(* render/deliver), then one step per iteration of the recipient loop,     *)
(* then the return.  The renderer, the style inliner and the delivery      *)
(* provider are external: each of their invocations nondeterministically   *)
(* succeeds or raises.                                                     *)
(***************************************************************************)
EXTENDS Integers, Sequences, FiniteSets, TLC

VARIABLES settings, ctor, svc, resend_api_key, pc, call, idx, results,
          successes, errors, outcome, log, now, instances, request, response,
          timers, preview_update_timer

\* the state of the desktop client
client == <<timers, preview_update_timer>>

vars == <<settings, ctor, svc, resend_api_key, pc, call, idx, results,
          successes, errors, outcome, log, now, instances, request, response,
          timers, preview_update_timer>>

(***************************************************************************)
(* Bounds.                                                                 *)
(***************************************************************************)
MaxTo == 3
MaxBatch == 3
MaxNow == 90
MaxRecipients == 2

(***************************************************************************)
(* Python values.  An Optional[T] is None or a value; `x or y` and `not x` *)
(* test truthiness, for which None, "" and [] are false.                   *)
(***************************************************************************)
None == [some |-> FALSE]
Some(v) == [some |-> TRUE, val |-> v]

TruthyStr(o) == o.some /\ o.val # ""
TruthySeq(o) == o.some /\ o.val # <<>>

RECURSIVE SeqsUpTo(_, _)
SeqsUpTo(S, n) ==
    IF n = 0 THEN {<<>>}
    ELSE LET shorter == SeqsUpTo(S, n - 1)
         IN shorter \cup {Append(s, x) : s \in {t \in shorter : Len(t) = n - 1}, x \in S}

(***************************************************************************)
(* core/models.py: EmailAddress.                                           *)
(***************************************************************************)
ValidEmails == {"a@x.io", "b@x.io", "c@x.io", "d@x.io", "u@x.io",
                "f@x.io", "no-reply@example.com", "help@acme.io"}

\* pydantic's EmailStr check made when an EmailAddress is constructed
IsEmailStr(e) == e \in ValidEmails

EmailAddress(email, name) == [email |-> email, name |-> name]

\* mutation: the name is tested against None instead of for truthiness
Str_NameNotNone(addr) ==
    IF addr.name.some
    THEN addr.name.val \o " <" \o addr.email \o ">"
    ELSE addr.email

\* EmailAddress.__str__
Str(addr) ==
    IF TruthyStr(addr.name)
    THEN addr.name.val \o " <" \o addr.email \o ">"
    ELSE addr.email

StrAll(addrs) == [i \in 1..Len(addrs) |-> Str(addrs[i])]

(***************************************************************************)
(* core/exceptions.py: an exception is its class and its message.          *)
(***************************************************************************)
Exc(type, msg) == [type |-> type, msg |-> msg]

EmailServiceError(msg) == Exc("EmailServiceError", msg)
TemplateNotFoundError(msg) == Exc("TemplateNotFoundError", msg)
ValidationError(msg) == Exc("ValidationError", msg)

\* isinstance(e, EmailServiceError)
IsEmailServiceError(e) ==
    e.type \in {"EmailServiceError", "TemplateNotFoundError", "EmailDeliveryError"}

(***************************************************************************)
(* core/models.py: Company; email_service/types: the content variants.     *)
(***************************************************************************)
Company == [name |-> "Acme",
            address |-> "1 Main St",
            support_email |-> EmailAddress("help@acme.io", None),
            website |-> "https://acme.io",
            social_media |-> [twitter |-> "@acme"],
            logo_url |-> None]

ThisYear == 2026

\* WelcomeEmail.__init__ (BaseEmail.__init__ stores company and year)
WelcomeEmail(company, user, dashboard_url) ==
    [kind |-> "welcome", template_name |-> "welcome.html",
     company |-> company, year |-> ThisYear,
     user |-> user, dashboard_url |-> dashboard_url]

\* PasswordResetEmail.__init__
PasswordResetEmail(company, user, reset_url, expires_in) ==
    [kind |-> "password_reset", template_name |-> "password_reset.html",
     company |-> company, year |-> ThisYear,
     user |-> user, reset_url |-> reset_url, expires_in |-> expires_in]

\* core/models.py: Notification, Alert, OrderItem, Order.  A price is a
\* number of cents.
Notification(title, message, type, icon, action_url, action_text, additional_info) ==
    [title |-> title, message |-> message, type |-> type, icon |-> icon,
     action_url |-> action_url, action_text |-> action_text,
     additional_info |-> additional_info]

Alert(title, message, type, steps, action_url, action_text, contact_support) ==
    [title |-> title, message |-> message, type |-> type, steps |-> steps,
     action_url |-> action_url, action_text |-> action_text,
     contact_support |-> contact_support]

OrderItem(name, quantity, price, sku) ==
    [name |-> name, quantity |-> quantity, price |-> price, sku |-> sku]

Order(number, items, shipping_address, delivery_estimate) ==
    [number |-> number, items |-> items,
     shipping_address |-> shipping_address,
     delivery_estimate |-> delivery_estimate]

\* OrderItem.total
ItemTotal(item) == item.quantity * item.price

\* Order.total: sum(item.total for item in self.items)
RECURSIVE OrderTotal(_)
OrderTotal(items) ==
    IF items = <<>> THEN 0 ELSE ItemTotal(Head(items)) + OrderTotal(Tail(items))

\* Order.items_count: sum(item.quantity for item in self.items)
RECURSIVE OrderItemsCount(_)
OrderItemsCount(items) ==
    IF items = <<>> THEN 0 ELSE Head(items).quantity + OrderItemsCount(Tail(items))

\* NotificationEmail.__init__
NotificationEmail(company, user, notification, preferences_url) ==
    [kind |-> "notification", template_name |-> "notification.html",
     company |-> company, year |-> ThisYear,
     user |-> user, notification |-> notification,
     preferences_url |-> preferences_url]

\* AlertEmail.__init__
AlertEmail(company, user, alert) ==
    [kind |-> "alert", template_name |-> "alert.html",
     company |-> company, year |-> ThisYear,
     user |-> user, alert |-> alert]

\* OrderConfirmationEmail.__init__
OrderConfirmationEmail(company, customer, order) ==
    [kind |-> "order_confirmation", template_name |-> "order_confirmation.html",
     company |-> company, year |-> ThisYear,
     customer |-> customer, order |-> order]

Ok == [ok |-> TRUE]
Raise(e) == [ok |-> FALSE, err |-> e]

\* mutation: a password reset that expires in no time is accepted
ValidateSpecificData_AnyExpiry(email) ==
    CASE email.kind = "welcome" ->
           IF email.dashboard_url = ""
           THEN Raise(ValidationError("dashboard_url es requerido para el email de bienvenida"))
           ELSE Ok
      [] email.kind = "password_reset" ->
           IF email.reset_url = ""
           THEN Raise(ValidationError("reset_url es requerido para el email de restablecimiento"))
           ELSE Ok
      [] email.kind = "notification" ->
           IF email.notification.title = "" \/ email.notification.message = ""
           THEN Raise(ValidationError("title y message son requeridos para el email de notificacion"))
           ELSE Ok
      [] email.kind = "alert" ->
           IF email.alert.title = "" \/ email.alert.message = ""
           THEN Raise(ValidationError("title y message son requeridos para el email de alerta"))
           ELSE Ok
      [] email.kind = "order_confirmation" ->
           IF email.order.number = ""
           THEN Raise(ValidationError("El numero de pedido es requerido"))
           ELSE IF email.order.items = <<>>
           THEN Raise(ValidationError("El pedido debe tener al menos un item"))
           ELSE IF email.order.shipping_address = ""
           THEN Raise(ValidationError("La direccion de envio es requerida"))
           ELSE Ok

\* _validate_specific_data of the five variants
ValidateSpecificData(email) ==
    CASE email.kind = "welcome" ->
           IF email.dashboard_url = ""
           THEN Raise(ValidationError("dashboard_url es requerido para el email de bienvenida"))
           ELSE Ok
      [] email.kind = "password_reset" ->
           IF email.reset_url = ""
           THEN Raise(ValidationError("reset_url es requerido para el email de restablecimiento"))
           ELSE IF email.expires_in <= 0
           THEN Raise(ValidationError("expires_in debe ser un numero positivo de horas"))
           ELSE Ok
      [] email.kind = "notification" ->
           IF email.notification.title = "" \/ email.notification.message = ""
           THEN Raise(ValidationError("title y message son requeridos para el email de notificacion"))
           ELSE Ok
      [] email.kind = "alert" ->
           IF email.alert.title = "" \/ email.alert.message = ""
           THEN Raise(ValidationError("title y message son requeridos para el email de alerta"))
           ELSE Ok
      [] email.kind = "order_confirmation" ->
           IF email.order.number = ""
           THEN Raise(ValidationError("El numero de pedido es requerido"))
           ELSE IF email.order.items = <<>>
           THEN Raise(ValidationError("El pedido debe tener al menos un item"))
           ELSE IF email.order.shipping_address = ""
           THEN Raise(ValidationError("La direccion de envio es requerida"))
           ELSE Ok

\* BaseEmail.validate
Validate(email) ==
    IF email.template_name = ""
    THEN Raise(ValidationError("template_name es requerido"))
    ELSE ValidateSpecificData(email)

\* BaseEmail.get_template_data: the data common to every variant
BaseTemplateData(email) ==
    [name |-> email.company.name,
     address |-> email.company.address,
     website |-> email.company.website,
     support_email |-> Str(email.company.support_email),
     social_media |-> email.company.social_media,
     logo_url |-> email.company.logo_url]

\* `self.user.name or "Usuario"`
UserData(user) ==
    [name |-> IF TruthyStr(user.name) THEN user.name.val ELSE "Usuario",
     email |-> user.email]

\* f"{x:.2f}" of an amount in cents
Fmt2f(cents) ==
    ToString(cents \div 100) \o "." \o ToString((cents % 100) \div 10)
                             \o ToString(cents % 10)

\* %d, %m, %H, %M of strftime: two digits
Pad2(n) == ToString((n \div 10) % 10) \o ToString(n % 10)

\* datetime.now().strftime("%d/%m/%Y %H:%M"), the clock t counting the
\* seconds since the first midnight of the year
Strftime(t) ==
    Pad2(1 + (t \div 86400)) \o "/01/" \o ToString(ThisYear) \o " "
        \o Pad2((t \div 3600) % 24) \o ":" \o Pad2((t \div 60) % 60)

\* OrderConfirmationEmail.get_template_data, lines 266-274
Products(items) ==
    [k \in 1..Len(items) |->
       [name |-> items[k].name,
        sku |-> IF TruthyStr(items[k].sku) THEN items[k].sku.val ELSE "N/A",
        quantity |-> items[k].quantity,
        price |-> Fmt2f(items[k].price),
        total |-> Fmt2f(ItemTotal(items[k]))]]

\* get_template_data of the five variants, called when the clock reads t
GetTemplateDataAt(email, t) ==
    CASE email.kind = "welcome" ->
           [company |-> BaseTemplateData(email), year |-> email.year,
            user |-> UserData(email.user),
            dashboard_url |-> email.dashboard_url]
      [] email.kind = "password_reset" ->
           [company |-> BaseTemplateData(email), year |-> email.year,
            user |-> UserData(email.user),
            reset_url |-> email.reset_url, expires_in |-> email.expires_in]
      [] email.kind = "notification" ->
           [company |-> BaseTemplateData(email), year |-> email.year,
            user |-> UserData(email.user),
            notification |-> email.notification,
            preferences_url |-> email.preferences_url]
      [] email.kind = "alert" ->
           [company |-> BaseTemplateData(email), year |-> email.year,
            user |-> UserData(email.user),
            alert |-> email.alert]
      [] email.kind = "order_confirmation" ->
           [company |-> BaseTemplateData(email), year |-> email.year,
            customer |->
              [name |-> IF TruthyStr(email.customer.name)
                        THEN email.customer.name.val ELSE "Cliente",
               email |-> email.customer.email],
            order_info |->
              [number |-> email.order.number,
               created_at |-> Strftime(t),
               products |-> Products(email.order.items),
               items_count |-> OrderItemsCount(email.order.items),
               total |-> Fmt2f(OrderTotal(email.order.items)),
               shipping_address |-> email.order.shipping_address,
               delivery_estimate |-> email.order.delivery_estimate]]

\* get_template_data, called now
GetTemplateData(email) == GetTemplateDataAt(email, now)

(***************************************************************************)
(* The external collaborators.  The rendered HTML is an opaque function of *)
(* the template and of the context; premailer's transform marks it         *)
(* inlined.  What each invocation does is chosen by the environment.       *)
(***************************************************************************)
RenderOutcomes == {"ok", "notfound", "rendererror"}
InlineOutcomes == {"ok", "fail"}
DeliverOutcomes == {"ok", "fail"}
Envs == [r : RenderOutcomes, i : InlineOutcomes, d : DeliverOutcomes]

\* jinja2: template.render(**context)
Html(template_name, context) ==
    [template |-> template_name, data |-> context, inlined |-> FALSE]

\* premailer: Premailer(html, ...).transform()
Transform(html) == [html EXCEPT !.inlined = TRUE]

\* mutation: a failure of premailer is raised instead of falling back
RenderWithInlineStyles_InlineFatal(template_name, context, r, i) ==
    IF r = "notfound"
    THEN Raise(TemplateNotFoundError("Plantilla no encontrada: " \o template_name))
    ELSE IF r = "rendererror"
    THEN Raise(EmailServiceError("Error al renderizar la plantilla " \o template_name))
    ELSE IF i = "ok"
    THEN [ok |-> TRUE, html |-> Transform(Html(template_name, context))]
    ELSE Raise(EmailServiceError("Error al convertir estilos a inline"))

\* EmailService._render_with_inline_styles: a missing template raises
\* TemplateNotFoundError, any other failure to load or to render raises
\* EmailServiceError, a failure of premailer falls back to the rendered HTML
RenderWithInlineStyles(template_name, context, r, i) ==
    IF r = "notfound"
    THEN Raise(TemplateNotFoundError("Plantilla no encontrada: " \o template_name))
    ELSE IF r = "rendererror"
    THEN Raise(EmailServiceError("Error al renderizar la plantilla " \o template_name))
    ELSE IF i = "ok"
    THEN [ok |-> TRUE, html |-> Transform(Html(template_name, context))]
    ELSE [ok |-> TRUE, html |-> Html(template_name, context)]

\* mutation: only the first address of `to` makes it into the params
PrepareEmailParams_FirstOnly(from_email, to, subject, html_content, cc, bcc) ==
    LET keys == {"from", "to", "subject", "html"}
                \cup (IF TruthySeq(cc) THEN {"cc"} ELSE {})
                \cup (IF TruthySeq(bcc) THEN {"bcc"} ELSE {})
    IN [k \in keys |->
          CASE k = "from" -> Str(from_email)
            [] k = "to" -> IF to = <<>> THEN <<>> ELSE <<Str(to[1])>>
            [] k = "subject" -> subject
            [] k = "html" -> html_content
            [] k = "cc" -> StrAll(cc.val)
            [] k = "bcc" -> StrAll(bcc.val)]

\* mutation: a cc or bcc list that was passed is carried even when empty
PrepareEmailParams_EmptyCopies(from_email, to, subject, html_content, cc, bcc) ==
    LET keys == {"from", "to", "subject", "html"}
                \cup (IF cc.some THEN {"cc"} ELSE {})
                \cup (IF bcc.some THEN {"bcc"} ELSE {})
    IN [k \in keys |->
          CASE k = "from" -> Str(from_email)
            [] k = "to" -> StrAll(to)
            [] k = "subject" -> subject
            [] k = "html" -> html_content
            [] k = "cc" -> StrAll(cc.val)
            [] k = "bcc" -> StrAll(bcc.val)]

\* EmailService._prepare_email_params
PrepareEmailParams(from_email, to, subject, html_content, cc, bcc) ==
    LET keys == {"from", "to", "subject", "html"}
                \cup (IF TruthySeq(cc) THEN {"cc"} ELSE {})
                \cup (IF TruthySeq(bcc) THEN {"bcc"} ELSE {})
    IN [k \in keys |->
          CASE k = "from" -> Str(from_email)
            [] k = "to" -> StrAll(to)
            [] k = "subject" -> subject
            [] k = "html" -> html_content
            [] k = "cc" -> StrAll(cc.val)
            [] k = "bcc" -> StrAll(bcc.val)]

\* resend.Emails.send(params), which authenticates with the module-global
\* resend.api_key: the receipt carries the id the provider gave
\* to the message, here the number of the message among those it accepted
ResendEmailsSend(params, d, nAccepted) ==
    IF d = "ok"
    THEN [ok |-> TRUE, val |-> [id |-> nAccepted + 1]]
    ELSE Raise(Exc("ResendError", "provider rejected the message"))

(***************************************************************************)
(* The events a call leaves in the log, in the order they happen.          *)
(***************************************************************************)
EvValidate(ok) == [ev |-> "validate", ok |-> ok]
EvGetTemplateData == [ev |-> "get_template_data"]
EvRender(template_name, context, ok) ==
    [ev |-> "render", template |-> template_name, data |-> context, ok |-> ok]
EvInline(ok) == [ev |-> "inline", ok |-> ok]
EvSend(params, api_key, ok) ==
    [ev |-> "send", params |-> params, api_key |-> api_key, ok |-> ok]

\* the events of one call of _render_with_inline_styles
RenderEvents(template_name, context, r, i) ==
    IF r = "ok"
    THEN <<EvRender(template_name, context, TRUE), EvInline(i = "ok")>>
    ELSE <<EvRender(template_name, context, FALSE)>>

Count(seq, kind) == Cardinality({j \in 1..Len(seq) : seq[j].ev = kind})
Accepted(seq) == Cardinality({j \in 1..Len(seq) : seq[j].ev = "send" /\ seq[j].ok})

(***************************************************************************)
(* core/config.py: the global settings; EmailService.__init__.             *)
(***************************************************************************)
\* EmailSystemSettings.get_default_from_address
GetDefaultFromAddress(st) ==
    EmailAddress(st.DEFAULT_FROM_EMAIL, Some(st.DEFAULT_FROM_NAME))

\* EmailSystemSettings.get_templates_dir
GetTemplatesDir(st) ==
    IF ~st.TEMPLATES_DIR.exists /\ ~st.TESTING
    THEN Raise(Exc("ValueError", "El directorio de templates no existe"))
    ELSE [ok |-> TRUE, val |-> st.TEMPLATES_DIR]

NoSvc == [constructed |-> FALSE]

\* mutation: only the constructor flag turns testing mode on
EmailServiceNew_FlagOnly(st, api_key, default_from, templates_dir, testing, oldKey) ==
    LET key == IF TruthyStr(api_key) THEN api_key.val ELSE st.RESEND_API_KEY
        from == IF default_from.some THEN default_from.val
                ELSE GetDefaultFromAddress(st)
        isTesting == testing
        fromSettings == GetTemplatesDir(st)
        made(dir) == [ok |-> TRUE, key |-> key,
                      svc |-> [constructed |-> TRUE, api_key |-> key,
                               default_from |-> from, testing |-> isTesting,
                               templates_dir |-> dir]]
        failed(msg, k) == [ok |-> FALSE, key |-> k, err |-> EmailServiceError(msg)]
    IN IF key = "" /\ ~testing
       THEN failed("API key no configurada para el servicio de email", oldKey)
       ELSE IF ~templates_dir.some
       THEN IF fromSettings.ok
            THEN made(fromSettings.val)
            ELSE failed("Error al obtener el directorio de plantillas", key)
       ELSE IF ~templates_dir.val.exists /\ ~isTesting
            THEN failed("El directorio de templates no existe", key)
            ELSE made(templates_dir.val)

\* EmailService.__init__: the instance built, or the error raised, and the
\* value the module-global resend.api_key has afterwards
EmailServiceNew(st, api_key, default_from, templates_dir, testing, oldKey) ==
    LET key == IF TruthyStr(api_key) THEN api_key.val ELSE st.RESEND_API_KEY
        from == IF default_from.some THEN default_from.val
                ELSE GetDefaultFromAddress(st)
        isTesting == testing \/ st.TESTING
        fromSettings == GetTemplatesDir(st)
        made(dir) == [ok |-> TRUE, key |-> key,
                      svc |-> [constructed |-> TRUE, api_key |-> key,
                               default_from |-> from, testing |-> isTesting,
                               templates_dir |-> dir]]
        failed(msg, k) == [ok |-> FALSE, key |-> k, err |-> EmailServiceError(msg)]
    IN IF key = "" /\ ~testing
       THEN failed("API key no configurada para el servicio de email", oldKey)
       ELSE IF ~templates_dir.some
       THEN IF fromSettings.ok
            THEN made(fromSettings.val)
            ELSE failed("Error al obtener el directorio de plantillas", key)
       ELSE IF ~templates_dir.val.exists /\ ~isTesting
            THEN failed("El directorio de templates no existe", key)
            ELSE made(templates_dir.val)

(***************************************************************************)
(* EmailService.send and EmailService.send_batch, one piece per step.      *)
(***************************************************************************)
Returned(v) == [kind |-> "returned", val |-> v]
Raised(e) == [kind |-> "raised", err |-> e]
Pending == [kind |-> "none"]

\* mutation: the ValidationError of validate() is let through unwrapped
ValidateOrRaise_Reraised(email) == Validate(email)

\* mutation: the result of validate() is ignored
ValidateOrRaise_Skipped(email) == Ok

\* send, lines 188-192, and send_batch, lines 297-301
ValidateOrRaise(email) ==
    LET v == Validate(email)
    IN IF v.ok THEN Ok
       ELSE Raise(EmailServiceError("Error al validar los datos del email: " \o v.err.msg))

\* `if not from_email: from_email = self.default_from`
ResolveFrom(s, from_email) ==
    IF from_email.some THEN from_email.val ELSE s.default_from

\* `if not isinstance(to, list): to = [to]`
NormalizeTo(to) == IF to.list THEN to.items ELSE <<to.addr>>

\* mutation: a failed delivery of a non-personalized send is recorded and
\* returned instead of raised
SendUnpersonalized_Isolating(s, email, from_email, to, subject, cc, bcc, env, key, nAccepted) ==
    LET data == GetTemplateData(email)
        rend == RenderWithInlineStyles(email.template_name, data, env.r, env.i)
        evs == <<EvGetTemplateData>> \o RenderEvents(email.template_name, data, env.r, env.i)
        params == PrepareEmailParams(from_email, to, subject, rend.html, cc, bcc)
        sent == ResendEmailsSend(params, env.d, nAccepted)
    IN IF ~rend.ok
       THEN [out |-> Raised(EmailServiceError("Error al enviar email: " \o rend.err.msg)),
             evs |-> evs]
       ELSE IF s.testing
       THEN [out |-> Returned(params), evs |-> evs]
       ELSE IF sent.ok
       THEN [out |-> Returned(sent.val),
             evs |-> Append(evs, EvSend(params, key, TRUE))]
       ELSE [out |-> Returned([error |-> sent.err.msg]),
             evs |-> Append(evs, EvSend(params, key, FALSE))]

\* send with personalize=False, lines 203-230: what the call returns or
\* raises, and the events it leaves
SendUnpersonalized(s, email, from_email, to, subject, cc, bcc, env, key, nAccepted) ==
    LET data == GetTemplateData(email)
        rend == RenderWithInlineStyles(email.template_name, data, env.r, env.i)
        evs == <<EvGetTemplateData>> \o RenderEvents(email.template_name, data, env.r, env.i)
        params == PrepareEmailParams(from_email, to, subject, rend.html, cc, bcc)
        sent == ResendEmailsSend(params, env.d, nAccepted)
    IN IF ~rend.ok
       THEN [out |-> Raised(EmailServiceError("Error al enviar email: " \o rend.err.msg)),
             evs |-> evs]
       ELSE IF s.testing
       THEN [out |-> Returned(params), evs |-> evs]
       ELSE IF sent.ok
       THEN [out |-> Returned(sent.val),
             evs |-> Append(evs, EvSend(params, key, TRUE))]
       ELSE [out |-> Raised(EmailServiceError("Error al enviar email: " \o sent.err.msg)),
             evs |-> Append(evs, EvSend(params, key, FALSE))]

\* send, lines 241-245: the template data of one recipient
PersonalizeSend(template_data, recipient) ==
    IF "user" \in DOMAIN template_data
    THEN [template_data EXCEPT !.user =
            [name |-> IF TruthyStr(recipient.name) THEN recipient.name.val
                      ELSE IF "name" \in DOMAIN template_data.user
                      THEN template_data.user.name ELSE "Usuario",
             email |-> recipient.email]]
    ELSE template_data

\* mutation: the error record of send loses the recipient's email
SendErrorRecord_NoEmail(e, recipient) == [error |-> e.msg]

\* send, line 271: the record of a recipient whose processing raised
SendErrorRecord(e, recipient) == [error |-> e.msg, email |-> recipient.email]

\* mutation: the variant is validated again for every recipient
SendIteration_Revalidates(s, email, from_email, recipient, subject, env, key, nAccepted) ==
    LET data == PersonalizeSend(GetTemplateData(email), recipient)
        rend == RenderWithInlineStyles(email.template_name, data, env.r, env.i)
        evs == <<EvValidate(TRUE), EvGetTemplateData>> \o RenderEvents(email.template_name, data, env.r, env.i)
        params == PrepareEmailParams(from_email, <<recipient>>, subject, rend.html, None, None)
        sent == ResendEmailsSend(params, env.d, nAccepted)
    IN IF ~rend.ok
       THEN [res |-> <<SendErrorRecord(rend.err, recipient)>>, evs |-> evs]
       ELSE IF s.testing
       THEN [res |-> <<params>>, evs |-> evs]
       ELSE IF sent.ok
       THEN [res |-> <<sent.val>>,
             evs |-> Append(evs, EvSend(params, key, TRUE))]
       ELSE [res |-> <<SendErrorRecord(sent.err, recipient)>>,
             evs |-> Append(evs, EvSend(params, key, FALSE))]

\* send with personalize=True, lines 235-271: one iteration of the loop
SendIteration(s, email, from_email, recipient, subject, env, key, nAccepted) ==
    LET data == PersonalizeSend(GetTemplateData(email), recipient)
        rend == RenderWithInlineStyles(email.template_name, data, env.r, env.i)
        evs == <<EvGetTemplateData>> \o RenderEvents(email.template_name, data, env.r, env.i)
        params == PrepareEmailParams(from_email, <<recipient>>, subject, rend.html, None, None)
        sent == ResendEmailsSend(params, env.d, nAccepted)
    IN IF ~rend.ok
       THEN [res |-> <<SendErrorRecord(rend.err, recipient)>>, evs |-> evs]
       ELSE IF s.testing
       THEN [res |-> <<params>>, evs |-> evs]
       ELSE IF sent.ok
       THEN [res |-> <<sent.val>>,
             evs |-> Append(evs, EvSend(params, key, TRUE))]
       ELSE [res |-> <<SendErrorRecord(sent.err, recipient)>>,
             evs |-> Append(evs, EvSend(params, key, FALSE))]

\* mutation: a recipient without a name gets the generic placeholder, not
\* the variant's default name
PersonalizeBatch_GenericFallback(template_data, recipient) ==
    IF "user" \in DOMAIN template_data
    THEN [template_data EXCEPT !.user =
            [template_data.user EXCEPT
               !.name = IF TruthyStr(recipient.name) THEN recipient.name.val
                        ELSE "Usuario",
               !.email = recipient.email]]
    ELSE template_data

\* send_batch, lines 333-340: the template data of one recipient
PersonalizeBatch(template_data, recipient) ==
    IF "user" \in DOMAIN template_data
    THEN [template_data EXCEPT !.user =
            [template_data.user EXCEPT
               !.name = IF TruthyStr(recipient.name) THEN recipient.name.val
                        ELSE IF "name" \in DOMAIN template_data.user
                        THEN template_data.user.name ELSE "Usuario",
               !.email = recipient.email]]
    ELSE template_data

\* send_batch, line 370: the record of a recipient whose delivery raised
BatchDeliveryErrorRecord(e, recipient) == [error |-> e.msg, email |-> recipient.email]

\* send_batch, line 374: the record of a recipient whose processing raised
BatchProcessErrorRecord(e, recipient_data) == [error |-> e.msg]

\* send_batch, line 319: whether the entry is processed at all
HasEmail(recipient_data) == "email" \in DOMAIN recipient_data

\* mutation: an entry without email is recorded as an error
SkippedEntry_Counted ==
    [res |-> <<[error |-> "destinatario sin email"]>>, succ |-> 0, err |-> 1, evs |-> <<>>]

\* mutation: an entry without email counts as an error and leaves no record
SkippedEntry_ErrorTallied == [res |-> <<>>, succ |-> 0, err |-> 1, evs |-> <<>>]

\* send_batch, lines 319-321: an entry without email adds nothing
SkippedEntry == [res |-> <<>>, succ |-> 0, err |-> 0, evs |-> <<>>]

\* mutation: a failed delivery is tried a second time
SendBatchIteration_Retry(s, email, from_email, recipient_data, subject, env, key, nAccepted) ==
    LET recipient == EmailAddress(recipient_data.email,
                        Some(IF "name" \in DOMAIN recipient_data
                             THEN recipient_data.name ELSE ""))
        data == PersonalizeBatch(GetTemplateData(email), recipient)
        rend == RenderWithInlineStyles(email.template_name, data, env.r, env.i)
        evs == <<EvGetTemplateData>> \o RenderEvents(email.template_name, data, env.r, env.i)
        params == PrepareEmailParams(from_email, <<recipient>>, subject, rend.html, None, None)
        sent == ResendEmailsSend(params, env.d, nAccepted)
        badAddress == Exc("pydantic.ValidationError", "value is not a valid email address")
    IN IF ~HasEmail(recipient_data)
       THEN SkippedEntry
       ELSE IF ~IsEmailStr(recipient_data.email)
       THEN [res |-> <<BatchProcessErrorRecord(badAddress, recipient_data)>>,
             succ |-> 0, err |-> 1, evs |-> <<>>]
       ELSE IF ~rend.ok
       THEN [res |-> <<BatchProcessErrorRecord(rend.err, recipient_data)>>,
             succ |-> 0, err |-> 1, evs |-> evs]
       ELSE IF s.testing
       THEN [res |-> <<params>>, succ |-> 1, err |-> 0, evs |-> evs]
       ELSE IF sent.ok
       THEN [res |-> <<sent.val>>, succ |-> 1, err |-> 0,
             evs |-> Append(evs, EvSend(params, key, TRUE))]
       ELSE [res |-> <<BatchDeliveryErrorRecord(sent.err, recipient)>>,
             succ |-> 0, err |-> 1,
             evs |-> evs \o <<EvSend(params, key, FALSE), EvSend(params, key, FALSE)>>]

\* send_batch, lines 316-375: one iteration of the loop
SendBatchIteration(s, email, from_email, recipient_data, subject, env, key, nAccepted) ==
    LET recipient == EmailAddress(recipient_data.email,
                        Some(IF "name" \in DOMAIN recipient_data
                             THEN recipient_data.name ELSE ""))
        data == PersonalizeBatch(GetTemplateData(email), recipient)
        rend == RenderWithInlineStyles(email.template_name, data, env.r, env.i)
        evs == <<EvGetTemplateData>> \o RenderEvents(email.template_name, data, env.r, env.i)
        params == PrepareEmailParams(from_email, <<recipient>>, subject, rend.html, None, None)
        sent == ResendEmailsSend(params, env.d, nAccepted)
        badAddress == Exc("pydantic.ValidationError", "value is not a valid email address")
    IN IF ~HasEmail(recipient_data)
       THEN SkippedEntry
       ELSE IF ~IsEmailStr(recipient_data.email)
       THEN [res |-> <<BatchProcessErrorRecord(badAddress, recipient_data)>>,
             succ |-> 0, err |-> 1, evs |-> <<>>]
       ELSE IF ~rend.ok
       THEN [res |-> <<BatchProcessErrorRecord(rend.err, recipient_data)>>,
             succ |-> 0, err |-> 1, evs |-> evs]
       ELSE IF s.testing
       THEN [res |-> <<params>>, succ |-> 1, err |-> 0, evs |-> evs]
       ELSE IF sent.ok
       THEN [res |-> <<sent.val>>, succ |-> 1, err |-> 0,
             evs |-> Append(evs, EvSend(params, key, TRUE))]
       ELSE [res |-> <<BatchDeliveryErrorRecord(sent.err, recipient)>>,
             succ |-> 0, err |-> 1,
             evs |-> Append(evs, EvSend(params, key, FALSE))]

\* mutation: the check for an empty recipient list is gone
NoRecipients_Unchecked(recipients) == FALSE

\* send_batch, lines 308-309
NoRecipients(recipients) == recipients = <<>>

(***************************************************************************)
(* The inputs of the calls.                                                *)
(***************************************************************************)
SettingsPool ==
    {[RESEND_API_KEY |-> "", TESTING |-> t,
      TEMPLATES_DIR |-> [path |-> "email_service/templates", exists |-> TRUE],
      DEFAULT_FROM_EMAIL |-> "no-reply@example.com",
      DEFAULT_FROM_NAME |-> "Email System"] : t \in BOOLEAN}

CtorArgs ==
    [api_key : {None, Some("k1")}, default_from : {None},
     templates_dir : {None}, testing : BOOLEAN]

Emails ==
    {WelcomeEmail(Company, EmailAddress("u@x.io", None), ""),
     WelcomeEmail(Company, EmailAddress("u@x.io", None), "https://x/d"),
     WelcomeEmail(Company, EmailAddress("u@x.io", Some("Uma")), "https://x/d")}

ToAddrs == {EmailAddress("a@x.io", Some("Ann")), EmailAddress("b@x.io", None)}

ToArgs ==
    {[list |-> TRUE, items |-> t] : t \in SeqsUpTo(ToAddrs, MaxTo)}
    \cup {[list |-> FALSE, addr |-> a] : a \in ToAddrs}

Sender == EmailAddress("f@x.io", Some(""))
CcC == EmailAddress("c@x.io", Some("Cy"))
CcD == EmailAddress("d@x.io", None)

\* from_email, cc and bcc as the caller passes them
Extras ==
    {[from_email |-> None, cc |-> None, bcc |-> None],
     [from_email |-> Some(Sender), cc |-> Some(<<>>), bcc |-> Some(<<CcD>>)],
     [from_email |-> None, cc |-> Some(<<CcC, CcD>>), bcc |-> None],
     [from_email |-> Some(Sender), cc |-> Some(<<CcC>>), bcc |-> Some(<<CcD>>)]}

BatchEntries ==
    {[email |-> "a@x.io", name |-> "Ann"],
     [email |-> "b@x.io"],
     [email |-> "", name |-> "Eve"],
     [name |-> "Bob"]}

BatchArgs == SeqsUpTo(BatchEntries, MaxBatch)

Subject == "Hola"

NoCall == [op |-> "none"]

\* no HTTP request is being served; no response has been made
NoRequest == [route |-> "none"]
\* self.preview_update_timer = None
NoTimer == 0
NoResponse == [status |-> "none"]

\* the instances of EmailService a process may hold besides `svc`
InstanceIds == {1, 2}
NoInstances == [i \in InstanceIds |-> NoSvc]

(***************************************************************************)
(* The state machine.                                                      *)
(***************************************************************************)
Init ==
    /\ settings \in SettingsPool
    /\ ctor = NoCall
    /\ svc = NoSvc
    /\ resend_api_key = ""
    /\ pc = "new"
    /\ call = NoCall
    /\ idx = 0
    /\ results = <<>>
    /\ successes = 0
    /\ errors = 0
    /\ outcome = Pending
    /\ log = <<>>
    /\ now = 0
    /\ instances = NoInstances
    /\ request = NoRequest
    /\ timers = <<>>
    /\ preview_update_timer = NoTimer
    /\ response = NoResponse

\* EmailService(api_key, default_from, templates_dir, testing), the
\* arguments drawn from Args
Construct(Args) ==
    \E a \in Args :
         LET c == EmailServiceNew(settings, a.api_key, a.default_from,
                                  a.templates_dir, a.testing, resend_api_key)
         IN /\ ctor' = a
            /\ resend_api_key' = c.key
            /\ svc' = IF c.ok THEN c.svc ELSE NoSvc
            /\ pc' = IF c.ok THEN "idle" ELSE "ctor_failed"
            /\ outcome' = IF c.ok THEN Pending ELSE Raised(c.err)

\* the construction of the service
EmailServiceInit ==
    /\ pc = "new"
    /\ Construct(CtorArgs)
    /\ UNCHANGED <<client, request, response, now, instances, settings, call, idx, results, successes, errors, log>>

\* EmailService.send on the instance s, from its entry to the return of a
\* non-personalized send or to the start of the recipient loop; the
\* arguments are drawn from the given pools
SendCall(s, EmailPool, ToPool, ExtraPool) ==
    /\ \E email \in EmailPool, to \in ToPool, x \in ExtraPool,
          personalize \in BOOLEAN, env \in Envs :
         LET v == ValidateOrRaise(email)
             from == ResolveFrom(s, x.from_email)
             toList == NormalizeTo(to)
             one == SendUnpersonalized(s, email, from, toList, Subject,
                                       x.cc, x.bcc, env, resend_api_key, Accepted(log))
         IN /\ call' = [op |-> "send", email |-> email, toArg |-> to, to |-> toList,
                        subject |-> Subject, from_email |-> from,
                        cc |-> x.cc, bcc |-> x.bcc, personalize |-> personalize]
            /\ IF ~v.ok
               THEN /\ log' = <<EvValidate(FALSE)>>
                    /\ outcome' = Raised(v.err)
                    /\ pc' = "done"
               ELSE IF ~personalize
               THEN /\ log' = <<EvValidate(TRUE)>> \o one.evs
                    /\ outcome' = one.out
                    /\ pc' = "done"
               ELSE /\ log' = <<EvValidate(TRUE)>>
                    /\ outcome' = Pending
                    /\ pc' = "send_loop"
    /\ idx' = 1
    /\ results' = <<>>

\* a call of send on the service
Send ==
    /\ pc = "idle"
    /\ SendCall(svc, Emails, ToArgs, Extras)
    /\ UNCHANGED <<client, request, response, now, instances, settings, ctor, svc, resend_api_key, successes, errors>>

\* one iteration of `for recipient in to` of send
SendLoop ==
    /\ pc = "send_loop"
    /\ idx <= Len(call.to)
    /\ \E env \in Envs :
         LET it == SendIteration(svc, call.email, call.from_email, call.to[idx],
                                 call.subject, env, resend_api_key, Accepted(log))
         IN /\ results' = results \o it.res
            /\ log' = log \o it.evs
    /\ idx' = idx + 1
    /\ UNCHANGED <<client, request, response, now, instances, settings, ctor, svc, resend_api_key, pc, call, successes, errors, outcome>>

\* `return results` of send
SendReturn ==
    /\ pc = "send_loop"
    /\ idx > Len(call.to)
    /\ outcome' = Returned(results)
    /\ pc' = "done"
    /\ UNCHANGED <<client, request, response, now, instances, settings, ctor, svc, resend_api_key, call, idx, results,
                   successes, errors, log>>

\* EmailService.send_batch, from its entry to the start of the recipient loop
SendBatch ==
    /\ pc = "idle"
    /\ \E email \in Emails, recipients \in BatchArgs,
          from_email \in {None, Some(Sender)} :
         LET v == ValidateOrRaise(email)
         IN /\ call' = [op |-> "send_batch", email |-> email,
                        recipients |-> recipients, subject |-> Subject,
                        from_email |-> ResolveFrom(svc, from_email)]
            /\ IF ~v.ok
               THEN /\ log' = <<EvValidate(FALSE)>>
                    /\ outcome' = Raised(v.err)
                    /\ pc' = "done"
               ELSE IF NoRecipients(recipients)
               THEN /\ log' = <<EvValidate(TRUE)>>
                    /\ outcome' = Raised(EmailServiceError("No se proporcionaron destinatarios"))
                    /\ pc' = "done"
               ELSE /\ log' = <<EvValidate(TRUE)>>
                    /\ outcome' = Pending
                    /\ pc' = "batch_loop"
    /\ idx' = 1
    /\ results' = <<>>
    /\ successes' = 0
    /\ errors' = 0
    /\ UNCHANGED <<client, request, response, now, instances, settings, ctor, svc, resend_api_key>>

\* mutation: a recipient's failure ends the whole batch with an error
SendBatchLoop_Propagates ==
    /\ pc = "batch_loop"
    /\ idx <= Len(call.recipients)
    /\ \E env \in Envs :
         LET it == SendBatchIteration(svc, call.email, call.from_email,
                                      call.recipients[idx], call.subject, env,
                                      resend_api_key, Accepted(log))
         IN /\ results' = results \o it.res
            /\ successes' = successes + it.succ
            /\ errors' = errors + it.err
            /\ log' = log \o it.evs
            /\ outcome' = IF it.err = 1
                           THEN Raised(EmailServiceError(it.res[1].error))
                           ELSE outcome
            /\ pc' = IF it.err = 1 THEN "done" ELSE pc
    /\ idx' = idx + 1
    /\ UNCHANGED <<client, request, response, now, instances, settings, ctor, svc, resend_api_key, call>>

\* one iteration of `for recipient_data in recipients` of send_batch
SendBatchLoop ==
    /\ pc = "batch_loop"
    /\ idx <= Len(call.recipients)
    /\ \E env \in Envs :
         LET it == SendBatchIteration(svc, call.email, call.from_email,
                                      call.recipients[idx], call.subject, env,
                                      resend_api_key, Accepted(log))
         IN /\ results' = results \o it.res
            /\ successes' = successes + it.succ
            /\ errors' = errors + it.err
            /\ log' = log \o it.evs
    /\ idx' = idx + 1
    /\ UNCHANGED <<client, request, response, now, instances, settings, ctor, svc, resend_api_key, pc, call, outcome>>

\* `return results` of send_batch
SendBatchReturn ==
    /\ pc = "batch_loop"
    /\ idx > Len(call.recipients)
    /\ outcome' = Returned(results)
    /\ pc' = "done"
    /\ UNCHANGED <<client, request, response, now, instances, settings, ctor, svc, resend_api_key, call, idx, results,
                   successes, errors, log>>

\* the caller has the result; the locals of the call are gone
CallerResumes ==
    /\ pc = "done"
    /\ pc' = "idle"
    /\ call' = NoCall
    /\ idx' = 0
    /\ results' = <<>>
    /\ successes' = 0
    /\ errors' = 0
    /\ outcome' = Pending
    /\ log' = <<>>
    /\ UNCHANGED <<client, request, response, now, instances, settings, ctor, svc, resend_api_key>>

Next ==
    \/ EmailServiceInit
    \/ Send
    \/ SendLoop
    \/ SendReturn
    \/ SendBatch
    \/ SendBatchLoop
    \/ SendBatchReturn
    \/ CallerResumes

Spec == Init /\ [][Next]_vars

(***************************************************************************)
(* The construction of the service on its own: every combination of the    *)
(* settings and of the constructor arguments, and the HTTP dependency      *)
(* get_email_service (api/dependencies.py).                                *)
(***************************************************************************)
SettingsFull ==
    {[RESEND_API_KEY |-> k, TESTING |-> t,
      TEMPLATES_DIR |-> [path |-> "email_service/templates", exists |-> x],
      DEFAULT_FROM_EMAIL |-> "no-reply@example.com",
      DEFAULT_FROM_NAME |-> "Email System"] :
        k \in {"", "k0"}, t \in BOOLEAN, x \in BOOLEAN}

CtorArgsFull ==
    [api_key : {None, Some("k1")},
     default_from : {None, Some(Sender)},
     templates_dir : {None, Some([path |-> "tpl", exists |-> TRUE]),
                      Some([path |-> "nowhere", exists |-> FALSE])},
     testing : BOOLEAN]

HTTPException(status, detail) ==
    [type |-> "HTTPException", status |-> status, msg |-> detail]

\* the arguments get_email_service passes to EmailService
DependencyArgs(st) ==
    [api_key |-> Some(st.RESEND_API_KEY),
     default_from |-> Some(GetDefaultFromAddress(st)),
     templates_dir |-> Some(st.TEMPLATES_DIR),
     testing |-> st.TESTING]

\* get_email_service: the instance, or the HTTP 500 it answers with
GetEmailServiceNew(st, oldKey) ==
    LET a == DependencyArgs(st)
        dir == GetTemplatesDir(st)
        c == EmailServiceNew(st, a.api_key, a.default_from, a.templates_dir,
                             a.testing, oldKey)
        failed(msg, k) ==
            [ok |-> FALSE, key |-> k,
             err |-> HTTPException(500, "Error al configurar el servicio de email: " \o msg)]
    IN IF st.RESEND_API_KEY = ""
       THEN failed("RESEND_API_KEY no configurada", oldKey)
       ELSE IF ~dir.ok
       THEN failed(dir.err.msg, oldKey)
       ELSE IF ~c.ok
       THEN failed(c.err.msg, c.key)
       ELSE c

InitCtor ==
    /\ settings \in SettingsFull
    /\ ctor = NoCall
    /\ svc = NoSvc
    /\ resend_api_key = ""
    /\ pc = "new"
    /\ call = NoCall
    /\ idx = 0
    /\ results = <<>>
    /\ successes = 0
    /\ errors = 0
    /\ outcome = Pending
    /\ log = <<>>
    /\ now = 0
    /\ instances = NoInstances
    /\ request = NoRequest
    /\ timers = <<>>
    /\ preview_update_timer = NoTimer
    /\ response = NoResponse

\* EmailService(...) called directly with any arguments
EmailServiceInitAny ==
    /\ pc = "new"
    /\ Construct(CtorArgsFull)
    /\ UNCHANGED <<client, request, response, now, instances, settings, call, idx, results, successes, errors, log>>

\* get_email_service(), the dependency of every route
GetEmailService ==
    /\ pc = "new"
    /\ LET c == GetEmailServiceNew(settings, resend_api_key)
       IN /\ ctor' = DependencyArgs(settings)
          /\ resend_api_key' = c.key
          /\ svc' = IF c.ok THEN c.svc ELSE NoSvc
          /\ pc' = IF c.ok THEN "idle" ELSE "ctor_failed"
          /\ outcome' = IF c.ok THEN Pending ELSE Raised(c.err)
    /\ UNCHANGED <<client, request, response, now, instances, settings, call, idx, results, successes, errors, log>>

NextCtor ==
    \/ EmailServiceInitAny
    \/ GetEmailService

SpecCtor == InitCtor /\ [][NextCtor]_vars

(***************************************************************************)
(* Two instances in one process.  Each is constructed with its own api     *)
(* key; a call goes through either of them, `svc` being the instance the   *)
(* call in progress runs on.                                               *)
(***************************************************************************)
TwoCtorArgs ==
    [api_key : {Some("k1"), Some("k2")}, default_from : {None},
     templates_dir : {None}, testing : {FALSE}]

TwoEmails == {WelcomeEmail(Company, EmailAddress("u@x.io", Some("Uma")), "https://x/d")}

TwoToArgs == {[list |-> TRUE, items |-> t] : t \in SeqsUpTo(ToAddrs, 2)}

TwoExtras == {[from_email |-> None, cc |-> None, bcc |-> None]}

InitTwo ==
    /\ settings \in {st \in SettingsPool : ~st.TESTING}
    /\ ctor = NoCall
    /\ svc = NoSvc
    /\ resend_api_key = ""
    /\ pc = "idle"
    /\ call = NoCall
    /\ idx = 0
    /\ results = <<>>
    /\ successes = 0
    /\ errors = 0
    /\ outcome = Pending
    /\ log = <<>>
    /\ now = 0
    /\ instances = NoInstances
    /\ request = NoRequest
    /\ timers = <<>>
    /\ preview_update_timer = NoTimer
    /\ response = NoResponse

\* EmailService(api_key=...) for one more instance, between two calls
NewInstance ==
    /\ pc = "idle"
    /\ \E i \in InstanceIds, a \in TwoCtorArgs :
         LET c == EmailServiceNew(settings, a.api_key, a.default_from,
                                  a.templates_dir, a.testing, resend_api_key)
         IN /\ ~instances[i].constructed
            /\ resend_api_key' = c.key
            /\ instances' = IF c.ok THEN [instances EXCEPT ![i] = c.svc]
                            ELSE instances
    /\ UNCHANGED <<client, request, response, now, settings, ctor, svc, pc, call, idx, results,
                   successes, errors, outcome, log>>

\* a call of send on one of the instances
SendThrough ==
    /\ pc = "idle"
    /\ \E i \in InstanceIds :
         /\ instances[i].constructed
         /\ svc' = instances[i]
         /\ SendCall(instances[i], TwoEmails, TwoToArgs, TwoExtras)
    /\ UNCHANGED <<client, request, response, now, instances, settings, ctor, resend_api_key, successes, errors>>

NextTwo ==
    \/ NewInstance
    \/ SendThrough
    \/ SendLoop
    \/ SendReturn
    \/ CallerResumes

SpecTwo == InitTwo /\ [][NextTwo]_vars

(***************************************************************************)
(* The same non-personalized send made twice on one service in testing     *)
(* mode, the clock advancing in between.  `call` keeps the arguments of    *)
(* the first call, `results` what each of the two calls returned.          *)
(***************************************************************************)
Uma == EmailAddress("u@x.io", Some("Uma"))

Pen == OrderItem("Pen", 2, 150, None)
Ink == OrderItem("Ink", 1, 1999, Some("SKU1"))

IdemEmails ==
    {WelcomeEmail(Company, Uma, "https://x/d"),
     PasswordResetEmail(Company, Uma, "https://x/r", 24),
     NotificationEmail(Company, Uma,
        Notification("Aviso", "Hay novedades", "info", None,
                     Some("https://x/n"), Some("Ver"), None),
        "https://x/p"),
     AlertEmail(Company, Uma,
        Alert("Alerta", "Acceso nuevo", "warning", Some(<<"Revise">>),
              None, None, TRUE)),
     OrderConfirmationEmail(Company, Uma,
        Order("A-1", <<Pen, Ink>>, "1 Main St", "3 dias"))}

IdemToArgs ==
    {[list |-> TRUE, items |-> <<a>>] : a \in ToAddrs}
    \cup {[list |-> FALSE, addr |-> a] : a \in ToAddrs}

IdemExtras ==
    {[from_email |-> None, cc |-> None, bcc |-> None],
     [from_email |-> Some(Sender), cc |-> Some(<<CcC>>), bcc |-> None]}

IdemEnvs == [r : {"ok"}, i : InlineOutcomes, d : {"ok"}]

IdemSettings == CHOOSE st \in SettingsPool : st.TESTING

IdemService == EmailServiceNew(IdemSettings, None, None, None, TRUE, "").svc

InitIdem ==
    /\ settings = IdemSettings
    /\ ctor = NoCall
    /\ svc = IdemService
    /\ resend_api_key = ""
    /\ pc = "idle"
    /\ call = NoCall
    /\ idx = 0
    /\ results = <<>>
    /\ successes = 0
    /\ errors = 0
    /\ outcome = Pending
    /\ log = <<>>
    /\ now = 0
    /\ instances = NoInstances
    /\ request = NoRequest
    /\ timers = <<>>
    /\ preview_update_timer = NoTimer
    /\ response = NoResponse

\* the clock advances by half a minute
Tick ==
    /\ now + 30 <= MaxNow
    /\ now' = now + 30
    /\ UNCHANGED <<client, request, response, instances, settings, ctor, svc, resend_api_key, pc, call,
                   idx, results, successes, errors, outcome, log>>

\* a call of send(..., personalize=False); the second call repeats the
\* arguments of the first
SendSame ==
    /\ pc = "idle"
    /\ Len(results) < 2
    /\ \E email \in IdemEmails, to \in IdemToArgs, x \in IdemExtras, env \in IdemEnvs :
         LET v == ValidateOrRaise(email)
             from == ResolveFrom(svc, x.from_email)
             toList == NormalizeTo(to)
             one == SendUnpersonalized(svc, email, from, toList, Subject,
                                       x.cc, x.bcc, env, resend_api_key, Accepted(log))
             args == [op |-> "send", email |-> email, toArg |-> to, to |-> toList,
                      subject |-> Subject, from_email |-> from,
                      cc |-> x.cc, bcc |-> x.bcc, personalize |-> FALSE,
                      env |-> env]
             out == IF v.ok THEN one.out ELSE Raised(v.err)
         IN /\ call.op = "send" => args = call
            /\ call' = args
            /\ outcome' = out
            /\ results' = Append(results, out)
            /\ log' = IF v.ok THEN <<EvValidate(TRUE)>> \o one.evs
                      ELSE <<EvValidate(FALSE)>>
    /\ UNCHANGED <<client, request, response, now, instances, settings, ctor, svc, resend_api_key, pc,
                   idx, successes, errors>>

NextIdem ==
    \/ Tick
    \/ SendSame

SpecIdem == InitIdem /\ [][NextIdem]_vars

(***************************************************************************)
(* validate() applied to one variant.                                      *)
(***************************************************************************)
\* a variant whose class attribute template_name is t
WithTemplateName(email, t) == [email EXCEPT !.template_name = t]

ValidateVariants ==
    {WelcomeEmail(Company, u, d) :
        u \in {Uma, EmailAddress("u@x.io", None)}, d \in {"", "https://x/d"}}
    \cup {PasswordResetEmail(Company, Uma, r, h) :
        r \in {"", "https://x/r"}, h \in {-1, 0, 1, 24}}
    \cup {NotificationEmail(Company, Uma,
            Notification(t, m, "info", None, None, None, None), "") :
        t \in {"", "Aviso"}, m \in {"", "Hay novedades"}}
    \cup {AlertEmail(Company, Uma, Alert(t, m, "info", None, None, None, TRUE)) :
        t \in {"", "Alerta"}, m \in {"", "Acceso nuevo"}}
    \cup {OrderConfirmationEmail(Company, Uma, Order(n, it, a, "3 dias")) :
        n \in {"", "A-1"}, it \in {<<>>, <<Pen>>, <<Pen, Ink>>},
        a \in {"", "1 Main St"}}

ValidateInputs ==
    ValidateVariants \cup {WithTemplateName(e, "") : e \in ValidateVariants}

InitValidate ==
    /\ settings = IdemSettings
    /\ ctor = NoCall
    /\ svc = NoSvc
    /\ resend_api_key = ""
    /\ pc = "idle"
    /\ call \in {[op |-> "validate", email |-> e] : e \in ValidateInputs}
    /\ idx = 0
    /\ results = <<>>
    /\ successes = 0
    /\ errors = 0
    /\ outcome = Pending
    /\ log = <<>>
    /\ now = 0
    /\ instances = NoInstances
    /\ request = NoRequest
    /\ timers = <<>>
    /\ preview_update_timer = NoTimer
    /\ response = NoResponse

\* email.validate()
ValidateCall ==
    /\ pc = "idle"
    /\ LET v == Validate(call.email)
       IN outcome' = IF v.ok THEN Returned(None) ELSE Raised(v.err)
    /\ pc' = "done"
    /\ UNCHANGED <<client, request, response, now, instances, settings, ctor, svc, resend_api_key, call,
                   idx, results, successes, errors, log>>

NextValidate == ValidateCall

SpecValidate == InitValidate /\ [][NextValidate]_vars

(***************************************************************************)
(* api/dependencies.py and api/routes/email_routes.py: the HTTP routes.    *)
(* A JSON object of a request body is a record; an object that may be      *)
(* absent or empty is Some(record) or None, both absent and {} being       *)
(* false for `not d`.                                                      *)
(***************************************************************************)
\* `k in d`, d.get(k, default) and d.get(k) for such an object
DictHas(d, k) == d.some /\ k \in DOMAIN d.val
DictGet(d, k, default) == IF DictHas(d, k) THEN d.val[k] ELSE default
DictGetOpt(d, k) == IF DictHas(d, k) THEN Some(d.val[k]) ELSE None

\* EmailAddress(email=..., name=...): pydantic checks the email
NewEmailAddress(email, name) ==
    IF IsEmailStr(email)
    THEN [ok |-> TRUE, val |-> EmailAddress(email, name)]
    ELSE Raise(Exc("pydantic.ValidationError", "value is not a valid email address"))

HttpError(status, detail) == [status |-> status, detail |-> detail]

\* handle_email_service_error
HandleEmailServiceError(e) ==
    IF e.type = "TemplateNotFoundError"
    THEN HttpError(500, "Plantilla no encontrada: " \o e.msg)
    ELSE IF IsEmailServiceError(e)
    THEN HttpError(500, "Error en el servicio de email: " \o e.msg)
    ELSE HttpError(500, "Error inesperado: " \o e.msg)

\* `except Exception as e: raise HTTPException(status_code=500, detail=str(e))`
UnexpectedError(e) == HttpError(500, e.msg)

\* an HTTPException(400) raised inside the try of a route is caught by its
\* `except Exception` like any other exception
BadRequest(detail) == UnexpectedError(Exc("HTTPException", "400: " \o detail))

\* the `except` clauses of a route, lines 228-232
RouteError(e) ==
    IF IsEmailServiceError(e) THEN HandleEmailServiceError(e) ELSE UnexpectedError(e)

\* get_api_key
GetApiKey(st, key) ==
    IF key # st.API_KEY
    THEN Raise(HTTPException(403, "API key invalida"))
    ELSE [ok |-> TRUE, val |-> key]

\* the dependencies of a route, resolved in the order of its parameters:
\* Depends(get_email_service) gave c, then Depends(get_api_key) gives k
Resolved(c, k) ==
    IF ~c.ok
    THEN [ok |-> FALSE, key |-> c.key, svc |-> NoSvc,
          resp |-> HttpError(c.err.status, c.err.msg)]
    ELSE IF ~k.ok
    THEN [ok |-> FALSE, key |-> c.key, svc |-> c.svc,
          resp |-> HttpError(k.err.status, k.err.msg)]
    ELSE [ok |-> TRUE, key |-> c.key, svc |-> c.svc]

Dependencies(st, key, oldKey) ==
    Resolved(GetEmailServiceNew(st, oldKey), GetApiKey(st, key))

\* /batch, lines 117-127: the Company of the request
BatchCompany(company_data) ==
    LET name == DictGet(company_data, "name", "")
        se == NewEmailAddress(DictGet(company_data, "support_email", ""), Some(name))
    IN IF ~se.ok THEN se
       ELSE [ok |-> TRUE,
             val |-> [name |-> name,
                      address |-> DictGet(company_data, "address", ""),
                      support_email |-> se.val,
                      website |-> DictGet(company_data, "website", ""),
                      social_media |-> DictGet(company_data, "social_media", <<>>),
                      logo_url |-> DictGetOpt(company_data, "logo_url")]]

\* /batch, lines 140-208: the content variant and the subject for the
\* email_type of the request
BatchVariant(email_type, company, primary_user, query_data, alert_data) ==
    CASE email_type = "welcome" ->
           IF ~DictHas(query_data, "dashboard_url")
           THEN [ok |-> FALSE, resp |-> BadRequest("dashboard_url es requerido")]
           ELSE [ok |-> TRUE,
                 email |-> WelcomeEmail(company, primary_user, query_data.val.dashboard_url),
                 subject |-> "Bienvenido a " \o company.name \o "!"]
      [] email_type = "password-reset" ->
           IF ~DictHas(query_data, "reset_url")
           THEN [ok |-> FALSE, resp |-> BadRequest("reset_url es requerido")]
           ELSE [ok |-> TRUE,
                 email |-> PasswordResetEmail(company, primary_user,
                              query_data.val.reset_url,
                              DictGet(query_data, "expires_in", 24)),
                 subject |-> "Restablecimiento de contrasena"]
      [] email_type = "notification" ->
           IF ~query_data.some
           THEN [ok |-> FALSE, resp |-> BadRequest("Se requieren datos para la notificacion")]
           ELSE [ok |-> TRUE,
                 email |-> NotificationEmail(company, primary_user,
                              Notification(DictGet(query_data, "title", ""),
                                           DictGet(query_data, "message", ""),
                                           DictGet(query_data, "type", "info"),
                                           DictGetOpt(query_data, "icon"),
                                           DictGetOpt(query_data, "action_url"),
                                           DictGetOpt(query_data, "action_text"),
                                           DictGetOpt(query_data, "additional_info")),
                              DictGet(query_data, "preferences_url", "")),
                 subject |-> DictGet(query_data, "title", "")]
      [] email_type = "alert" ->
           IF ~alert_data.some
           THEN [ok |-> FALSE, resp |-> BadRequest("Se requieren datos para la alerta")]
           ELSE [ok |-> TRUE,
                 email |-> AlertEmail(company, primary_user,
                              Alert(DictGet(alert_data, "title", ""),
                                    DictGet(alert_data, "message", ""),
                                    DictGet(alert_data, "type", "info"),
                                    DictGetOpt(alert_data, "steps"),
                                    DictGetOpt(alert_data, "action_url"),
                                    DictGetOpt(alert_data, "action_text"),
                                    DictGet(alert_data, "contact_support", TRUE))),
                 subject |-> DictGet(alert_data, "title", "Alerta")]
      [] OTHER ->
           [ok |-> FALSE, resp |-> BadRequest("Tipo de email no valido: " \o email_type)]

\* mutation: the address of the first entry is taken as it is
PrimaryUser_Unchecked(recipients_data) ==
    LET first_recipient == recipients_data[1]
    IN [ok |-> TRUE,
        val |-> EmailAddress(IF "email" \in DOMAIN first_recipient
                             THEN first_recipient.email ELSE "",
                             IF "name" \in DOMAIN first_recipient
                             THEN Some(first_recipient.name) ELSE None)]

\* /batch, lines 133-138: the first entry of the list
PrimaryUser(recipients_data) ==
    LET first_recipient == recipients_data[1]
    IN NewEmailAddress(IF "email" \in DOMAIN first_recipient
                       THEN first_recipient.email ELSE "",
                       IF "name" \in DOMAIN first_recipient
                       THEN Some(first_recipient.name) ELSE None)

\* /batch, lines 100-208: what the route does before it calls send_batch
BatchPrepare(req) ==
    LET company == BatchCompany(req.company)
        primary_user == PrimaryUser(req.recipients)
    IN IF req.email_type = ""
       THEN [ok |-> FALSE, resp |-> BadRequest("email_type es requerido")]
       ELSE IF ~req.company.some
       THEN [ok |-> FALSE, resp |-> BadRequest("company es requerido")]
       ELSE IF req.recipients = <<>>
       THEN [ok |-> FALSE, resp |-> BadRequest("recipients es requerido")]
       ELSE IF ~company.ok
       THEN [ok |-> FALSE, resp |-> UnexpectedError(company.err)]
       ELSE IF ~primary_user.ok
       THEN [ok |-> FALSE, resp |-> UnexpectedError(primary_user.err)]
       ELSE BatchVariant(req.email_type, company.val, primary_user.val,
                         req.query, req.alert)

\* /batch, lines 217-226: the response made of what send_batch returned
BatchResponse(res) ==
    LET success_count == Cardinality({k \in 1..Len(res) : "id" \in DOMAIN res[k]})
    IN [status |-> 200,
        body |-> [status |-> "success", sent |-> success_count,
                  failed |-> Len(res) - success_count, total |-> Len(res)]]

\* Company(**company.dict()): the validators of Company turn the
\* support_email string into an EmailAddress and an empty logo_url into None
CompanyOf(body) ==
    LET se == NewEmailAddress(body.support_email, None)
    IN IF ~se.ok THEN se
       ELSE [ok |-> TRUE,
             val |-> [name |-> body.name, address |-> body.address,
                      support_email |-> se.val, website |-> body.website,
                      social_media |-> body.social_media,
                      logo_url |-> IF TruthyStr(body.logo_url) THEN body.logo_url
                                   ELSE None]]

\* mutation: the names are dropped
ToEmailAddresses_Unnamed(emails, names) ==
    [i \in 1..Len(emails) |-> EmailAddress(emails[i], None)]

\* MultiEmailAddressBase.to_email_addresses
ToEmailAddresses(emails, names) ==
    [i \in 1..Len(emails) |->
       EmailAddress(emails[i],
                    IF TruthySeq(names) /\ i <= Len(names.val)
                    THEN Some(names.val[i]) ELSE None)]

\* lines 248-254: the recipients of the request
RecipientsOf(user) ==
    IF user.multi THEN ToEmailAddresses(user.emails, user.names)
    ELSE <<EmailAddress(user.email, user.name)>>

NotificationTypes == {"success", "warning", "error", "info"}
AlertTypes == {"info", "warning", "error"}

\* the content variant and the subject a single-variant route builds
SingleVariant(route, company, primary_user, req) ==
    CASE route = "welcome" ->
           IF ~DictHas(req.query, "dashboard_url")
           THEN [ok |-> FALSE, resp |-> BadRequest("dashboard_url es requerido")]
           ELSE [ok |-> TRUE,
                 email |-> WelcomeEmail(company, primary_user,
                                        req.query.val.dashboard_url),
                 subject |-> "Bienvenido a " \o company.name \o "!"]
      [] route = "password-reset" ->
           IF ~DictHas(req.query, "reset_url")
           THEN [ok |-> FALSE, resp |-> BadRequest("reset_url es requerido")]
           ELSE [ok |-> TRUE,
                 email |-> PasswordResetEmail(company, primary_user,
                              req.query.val.reset_url,
                              DictGet(req.query, "expires_in", 24)),
                 subject |-> "Restablecimiento de contrasena"]
      [] route = "notification" ->
           [ok |-> TRUE,
            email |-> NotificationEmail(company, primary_user, req.notification,
                         DictGet(req.query, "preferences_url", "")),
            subject |-> req.notification.title]
      [] route = "alert" ->
           [ok |-> TRUE,
            email |-> AlertEmail(company, primary_user, req.alert),
            subject |-> req.alert.title]

\* Notification(**notification.dict()) and Alert(**alert.dict()): the
\* validator of `type` raises for a type that is not allowed
BodyTypeAllowed(req) ==
    CASE req.route = "notification" -> req.notification.type \in NotificationTypes
      [] req.route = "alert" -> req.alert.type \in AlertTypes
      [] OTHER -> TRUE

\* what a single-variant route does before it calls send
SinglePrepare(req) ==
    LET company == CompanyOf(req.company)
        recipients == RecipientsOf(req.user)
        variant == SingleVariant(req.route, company.val, recipients[1], req)
    IN IF ~company.ok
       THEN [ok |-> FALSE, resp |-> UnexpectedError(company.err)]
       ELSE IF ~BodyTypeAllowed(req)
       THEN [ok |-> FALSE,
             resp |-> UnexpectedError(Exc("pydantic.ValidationError",
                                          "El tipo debe ser uno de los permitidos"))]
       ELSE IF recipients = <<>>
       THEN [ok |-> FALSE,
             resp |-> UnexpectedError(Exc("IndexError", "list index out of range"))]
       ELSE IF ~variant.ok THEN variant
       ELSE [ok |-> TRUE, email |-> variant.email, subject |-> variant.subject,
             to |-> recipients]

\* `return {"status": "success", "message_id": result.get("id")}`
SingleResponse(result) ==
    [status |-> 200,
     body |-> [status |-> "success",
               message_id |-> IF "id" \in DOMAIN result THEN Some(result.id)
                              ELSE None]]

(***************************************************************************)
(* The requests the routes are given.                                      *)
(***************************************************************************)
ApiSettings ==
    {[API_KEY |-> "secret", RESEND_API_KEY |-> k, TESTING |-> t,
      TEMPLATES_DIR |-> [path |-> "email_service/templates", exists |-> TRUE],
      DEFAULT_FROM_EMAIL |-> "no-reply@example.com",
      DEFAULT_FROM_NAME |-> "Email System"] : k \in {"", "rk"}, t \in BOOLEAN}

HeaderKeys == {"secret", "wrong"}

CompanyData ==
    [name |-> "Acme", address |-> "1 Main St", support_email |-> "help@acme.io",
     website |-> "https://acme.io", social_media |-> [twitter |-> "@acme"]]

CompanyBody ==
    [name |-> "Acme", address |-> "1 Main St", support_email |-> "help@acme.io",
     website |-> "https://acme.io", social_media |-> [twitter |-> "@acme"],
     logo_url |-> None]

QueryData ==
    [dashboard_url |-> "https://x/d", reset_url |-> "https://x/r",
     title |-> "Aviso", message |-> "Hay novedades"]

Queries == {Some(QueryData), Some([dashboard_url |-> ""]), None}

AlertData == [title |-> "Alerta", message |-> "Acceso nuevo"]

ApiEntries ==
    {[email |-> "a@x.io", name |-> "Ann"],
     [email |-> "b@x.io"],
     [email |-> "c@x.io", name |-> ""],
     [name |-> "Bob"],
     [email |-> "bad"]}

BatchRequests ==
    [route : {"batch"}, key : HeaderKeys,
     email_type : {"welcome", "password-reset", "notification", "alert", "bogus", ""},
     company : {Some(CompanyData), None},
     recipients : SeqsUpTo(ApiEntries, MaxRecipients),
     query : Queries,
     alert : {Some(AlertData), None}]

Users ==
    {[multi |-> FALSE, email |-> "a@x.io", name |-> Some("Ann")],
     [multi |-> FALSE, email |-> "b@x.io", name |-> None]}
    \cup [multi : {TRUE},
          emails : SeqsUpTo({"a@x.io", "b@x.io"}, MaxRecipients),
          names : {None, Some(<<>>), Some(<<"Ann">>), Some(<<"Ann", "Bea">>)}]

NotificationBodies ==
    {Notification(t, "Hay novedades", "info", None, None, None, None) :
        t \in {"Aviso", ""}}

AlertBodies ==
    {Alert("Alerta", "Acceso nuevo", y, None, None, None, TRUE) :
        y \in {"warning", "fatal"}}

WelcomeRequests ==
    [route : {"welcome"}, key : HeaderKeys, company : {CompanyBody},
     user : Users, query : Queries]

PasswordResetRequests ==
    [route : {"password-reset"}, key : HeaderKeys, company : {CompanyBody},
     user : Users, query : Queries]

NotificationRequests ==
    [route : {"notification"}, key : HeaderKeys, company : {CompanyBody},
     user : Users, query : Queries, notification : NotificationBodies]

AlertRequests ==
    [route : {"alert"}, key : HeaderKeys, company : {CompanyBody},
     user : Users, alert : AlertBodies]

(***************************************************************************)
(* The server: it serves one request at a time.                            *)
(***************************************************************************)
InitApi ==
    /\ settings \in ApiSettings
    /\ ctor = NoCall
    /\ svc = NoSvc
    /\ resend_api_key = ""
    /\ pc = "idle"
    /\ call = NoCall
    /\ idx = 0
    /\ results = <<>>
    /\ successes = 0
    /\ errors = 0
    /\ outcome = Pending
    /\ log = <<>>
    /\ now = 0
    /\ instances = NoInstances
    /\ request = NoRequest
    /\ timers = <<>>
    /\ preview_update_timer = NoTimer
    /\ response = NoResponse

Requests ==
    WelcomeRequests \cup PasswordResetRequests \cup NotificationRequests
        \cup AlertRequests \cup BatchRequests

\* a request arrives
Receive ==
    /\ pc = "idle"
    /\ \E req \in Requests : request' = req
    /\ pc' = "received"
    /\ UNCHANGED <<client, now, instances, settings, ctor, svc, resend_api_key, response,
                   call, idx, results, successes, errors, outcome, log>>

\* a dependency or the body of the route raised before the service was called
Refused(dep, prep) ==
    /\ response' = IF ~dep.ok THEN dep.resp ELSE prep.resp
    /\ call' = NoCall
    /\ log' = <<>>
    /\ outcome' = Pending

\* the service raised e: the `except` clauses of the route answer
Failed(e, entered, evs) ==
    /\ response' = RouteError(e)
    /\ call' = entered
    /\ log' = evs
    /\ outcome' = Raised(e)

\* send returned: the response carries result.get("id")
Answered(one, entered) ==
    /\ response' = IF one.out.kind = "raised" THEN RouteError(one.out.err)
                   ELSE SingleResponse(one.out.val)
    /\ call' = entered
    /\ log' = <<EvValidate(TRUE)>> \o one.evs
    /\ outcome' = one.out

\* email_service.send(email, to=recipients, subject=...), as the routes call it
SingleCall(prep, from) ==
    [op |-> "send", email |-> prep.email,
     toArg |-> [list |-> TRUE, items |-> prep.to],
     to |-> prep.to, subject |-> prep.subject,
     from_email |-> from, cc |-> None, bcc |-> None,
     personalize |-> FALSE]

CallSend(dep, prep, v, from, env) ==
    IF ~v.ok
    THEN Failed(v.err, SingleCall(prep, from), <<EvValidate(FALSE)>>)
    ELSE Answered(SendUnpersonalized(dep.svc, prep.email, from, prep.to,
                                     prep.subject, None, None, env, dep.key,
                                     Accepted(log)),
                  SingleCall(prep, from))

SingleRoute(dep, prep, env) ==
    /\ resend_api_key' = dep.key
    /\ svc' = dep.svc
    /\ IF ~dep.ok \/ ~prep.ok
       THEN Refused(dep, prep)
       ELSE CallSend(dep, prep, ValidateOrRaise(prep.email),
                     ResolveFrom(dep.svc, None), env)

\* a request to one of /welcome, /password-reset, /notification, /alert:
\* the dependencies, the body of the route and the call of send it makes
ServeSingle(req, env) ==
    /\ SingleRoute(Dependencies(settings, req.key, resend_api_key),
                   SinglePrepare(req), env)
    /\ pc' = "responded"
    /\ UNCHANGED <<client, now, instances, settings, ctor, request, idx, results,
                   successes, errors>>

\* POST /emails/welcome
SendWelcomeEmail ==
    /\ pc = "received"
    /\ request.route = "welcome"
    /\ \E env \in Envs : ServeSingle(request, env)

\* POST /emails/password-reset
SendPasswordReset ==
    /\ pc = "received"
    /\ request.route = "password-reset"
    /\ \E env \in Envs : ServeSingle(request, env)

\* POST /emails/notification
SendNotification ==
    /\ pc = "received"
    /\ request.route = "notification"
    /\ \E env \in Envs : ServeSingle(request, env)

\* POST /emails/alert
SendAlert ==
    /\ pc = "received"
    /\ request.route = "alert"
    /\ \E env \in Envs : ServeSingle(request, env)

\* email_service.send_batch(email_obj, recipients_data, subject)
BatchCall(prep, recipients, from) ==
    [op |-> "send_batch", email |-> prep.email, recipients |-> recipients,
     subject |-> prep.subject, from_email |-> from]

\* send_batch is entered: the validation and the empty list raise before
\* the first entry
CallSendBatch(prep, v, recipients, entered) ==
    IF ~v.ok
    THEN Failed(v.err, entered, <<EvValidate(FALSE)>>) /\ pc' = "responded"
    ELSE IF NoRecipients(recipients)
    THEN /\ Failed(EmailServiceError("No se proporcionaron destinatarios"),
                   entered, <<EvValidate(TRUE)>>)
         /\ pc' = "responded"
    ELSE /\ response' = NoResponse
         /\ call' = entered
         /\ log' = <<EvValidate(TRUE)>>
         /\ outcome' = Pending
         /\ pc' = "batch_loop"

BatchRoute(dep, prep, recipients) ==
    /\ resend_api_key' = dep.key
    /\ svc' = dep.svc
    /\ IF ~dep.ok \/ ~prep.ok
       THEN Refused(dep, prep) /\ pc' = "responded"
       ELSE CallSendBatch(prep, ValidateOrRaise(prep.email), recipients,
                          BatchCall(prep, recipients, ResolveFrom(dep.svc, None)))

\* a request to /batch, up to the entry of send_batch
SendBatchEmails ==
    /\ pc = "received"
    /\ request.route = "batch"
    /\ BatchRoute(Dependencies(settings, request.key, resend_api_key),
                  BatchPrepare(request), request.recipients)
    /\ idx' = 1
    /\ results' = <<>>
    /\ successes' = 0
    /\ errors' = 0
    /\ UNCHANGED <<client, now, instances, settings, ctor, request>>

\* /batch, lines 217-226, once send_batch has returned
BatchRespond ==
    /\ pc = "done"
    /\ request.route = "batch"
    /\ response' = BatchResponse(outcome.val)
    /\ pc' = "responded"
    /\ UNCHANGED <<client, now, instances, settings, ctor, svc, resend_api_key, request,
                   call, idx, results, successes, errors, outcome, log>>

\* the response is sent; the server takes the next request
NextRequest ==
    /\ pc = "responded"
    /\ pc' = "idle"
    /\ request' = NoRequest
    /\ response' = NoResponse
    /\ svc' = NoSvc
    /\ call' = NoCall
    /\ idx' = 0
    /\ results' = <<>>
    /\ successes' = 0
    /\ errors' = 0
    /\ outcome' = Pending
    /\ log' = <<>>
    /\ UNCHANGED <<client, now, instances, settings, ctor, resend_api_key>>

NextApi ==
    \/ Receive
    \/ SendWelcomeEmail
    \/ SendPasswordReset
    \/ SendNotification
    \/ SendAlert
    \/ SendBatchEmails
    \/ SendBatchLoop
    \/ SendBatchReturn
    \/ BatchRespond
    \/ NextRequest

SpecApi == InitApi /\ [][NextApi]_vars

(***************************************************************************)
(* client/components/main_window.py: the debounce of the preview.  The     *)
(* window and its timers live in the one thread of the Qt event loop, so   *)
(* a slot and a timeout never run at once.  `now` counts milliseconds;     *)
(* timers holds every QTimer the window has created, and                   *)
(* preview_update_timer is the index of the one the window refers to.      *)
(* A QTimer fires no earlier than its interval after start; it may fire    *)
(* later when the event loop is busy.                                      *)
(***************************************************************************)
MaxClock == 1500
MaxChanges == 3

\* self.preview_update_timer.start(500)
PreviewDelay == 500

\* the time that passes between two events of the event loop
Gaps == {250, 499, 500}

\* QTimer(); setSingleShot(True); start(msec)
StartedTimer(msec) == [active |-> TRUE, due |-> now + msec]

StopTimer_Ignored(ts, ref) == ts

\* `if self.preview_update_timer: self.preview_update_timer.stop()`
StopTimer(ts, ref) ==
    IF ref = NoTimer THEN ts ELSE [ts EXCEPT ![ref].active = FALSE]

EvFormChanged == [ev |-> "form_changed", at |-> now]
EvUpdatePreview == [ev |-> "update_preview", at |-> now]

FormChanges == Cardinality({k \in 1..Len(log) : log[k].ev = "form_changed"})

InitClient ==
    /\ settings = IdemSettings
    /\ ctor = NoCall
    /\ svc = NoSvc
    /\ resend_api_key = ""
    /\ pc = "idle"
    /\ call = NoCall
    /\ idx = 0
    /\ results = <<>>
    /\ successes = 0
    /\ errors = 0
    /\ outcome = Pending
    /\ log = <<>>
    /\ now = 0
    /\ instances = NoInstances
    /\ request = NoRequest
    /\ response = NoResponse
    /\ timers = <<>>
    /\ preview_update_timer = NoTimer

\* a form emits form_changed: _schedule_preview_update
SchedulePreviewUpdate ==
    /\ FormChanges < MaxChanges
    /\ now + PreviewDelay <= MaxClock
    /\ timers' = Append(StopTimer(timers, preview_update_timer),
                        StartedTimer(PreviewDelay))
    /\ preview_update_timer' = Len(timers) + 1
    /\ log' = Append(log, EvFormChanged)
    /\ UNCHANGED <<request, response, now, instances, settings, ctor, svc,
                   resend_api_key, pc, call, idx, results, successes, errors,
                   outcome>>

\* the timeout of a single-shot timer that is due: _update_preview
Timeout ==
    /\ \E t \in DOMAIN timers :
         /\ timers[t].active
         /\ now >= timers[t].due
         /\ timers' = [timers EXCEPT ![t].active = FALSE]
    /\ log' = Append(log, EvUpdatePreview)
    /\ UNCHANGED <<preview_update_timer, request, response, now, instances,
                   settings, ctor, svc, resend_api_key, pc, call, idx, results,
                   successes, errors, outcome>>

\* time passes, up to the horizon of the model
Elapse ==
    /\ now < MaxClock
    /\ \E d \in Gaps : now' = IF now + d <= MaxClock THEN now + d ELSE MaxClock
    /\ UNCHANGED <<client, request, response, instances, settings, ctor, svc,
                   resend_api_key, pc, call, idx, results, successes, errors,
                   outcome, log>>

NextClient ==
    \/ SchedulePreviewUpdate
    \/ Timeout
    \/ Elapse

SpecClient == InitClient /\ [][NextClient]_vars

\* the event loop keeps running: time passes and a due timer fires
SpecClientLive == SpecClient /\ WF_vars(Elapse) /\ WF_vars(Timeout)

(***************************************************************************)
(* email_service/utils/validation.py.  A Python string is the sequence of  *)
(* its characters; a text argument is [str |-> TRUE, chars |-> s], or      *)
(* [str |-> FALSE] for a value that is not a string.                       *)
(***************************************************************************)
MaxTokens == 5

Lower ==
    {"a", "b", "c", "d", "e", "f", "g", "h", "i", "j", "k", "l", "m",
     "n", "o", "p", "q", "r", "s", "t", "u", "v", "w", "x", "y", "z"}
Upper ==
    {"A", "B", "C", "D", "E", "F", "G", "H", "I", "J", "K", "L", "M",
     "N", "O", "P", "Q", "R", "S", "T", "U", "V", "W", "X", "Y", "Z"}
Digits == {"0", "1", "2", "3", "4", "5", "6", "7", "8", "9"}

\* the character classes of EMAIL_PATTERN:
\* [a-zA-Z0-9._%+-], [a-zA-Z0-9.-] and [a-zA-Z]
LocalChars == Lower \cup Upper \cup Digits \cup {".", "_", "%", "+", "-"}
DomainChars == Lower \cup Upper \cup Digits \cup {".", "-"}
TldChars == Lower \cup Upper

\* ^[a-zA-Z0-9._%+-]+@[a-zA-Z0-9.-]+\.[a-zA-Z]{2,}$ over the whole of s
FullMatch(s) ==
    \E i \in 2..Len(s) :
        /\ s[i] = "@"
        /\ \A j \in 1..(i - 1) : s[j] \in LocalChars
        /\ \E k \in (i + 2)..(Len(s) - 2) :
             /\ s[k] = "."
             /\ \A j \in (i + 1)..(k - 1) : s[j] \in DomainChars
             /\ \A j \in (k + 1)..Len(s) : s[j] \in TldChars

\* EMAIL_REGEX.match(s): the text matched, s itself or s without its final
\* newline since `$` also matches just before a final newline
RegexMatch(s) ==
    IF FullMatch(s) THEN [found |-> TRUE, text |-> s]
    ELSE IF s # <<>> /\ s[Len(s)] = "\n" /\ FullMatch(SubSeq(s, 1, Len(s) - 1))
    THEN [found |-> TRUE, text |-> SubSeq(s, 1, Len(s) - 1)]
    ELSE [found |-> FALSE]

\* EMAIL_REGEX.findall(s): `^` matches at the start of the text only (the
\* pattern is compiled without re.MULTILINE), so the scan of the start
\* positions can match at the first one only
RegexFindall(s) ==
    IF RegexMatch(s).found THEN <<RegexMatch(s).text>> ELSE <<>>

\* validate_email
ValidateEmail(email) ==
    IF ~email.str \/ email.chars = <<>> THEN FALSE ELSE RegexMatch(email.chars).found

PyStr(s) == [str |-> TRUE, chars |-> s]

\* extract_emails_from_text
ExtractEmailsFromText(text) ==
    IF ~text.str \/ text.chars = <<>> THEN <<>> ELSE RegexFindall(text.chars)

IsSpace(c) == c \in {" ", "\n", "\t", "\r"}

\* str.lstrip, str.rstrip, str.strip
RECURSIVE LStrip(_)
LStrip(s) == IF s # <<>> /\ IsSpace(Head(s)) THEN LStrip(Tail(s)) ELSE s

RECURSIVE RStrip(_)
RStrip(s) ==
    IF s # <<>> /\ IsSpace(s[Len(s)]) THEN RStrip(SubSeq(s, 1, Len(s) - 1)) ELSE s

StrStrip(s) == RStrip(LStrip(s))

\* s[a:b] and s[a:]
Slice(s, a, b) == SubSeq(s, a + 1, b)
SliceFrom(s, a) == SubSeq(s, a + 1, Len(s))

\* str.find(sep): the lowest index at which sep occurs in s, or -1
Occurrences(s, sep) ==
    {i \in 0..(Len(s) - Len(sep)) : Slice(s, i, i + Len(sep)) = sep}

Find(s, sep) ==
    IF Occurrences(s, sep) = {} THEN -1
    ELSE CHOOSE i \in Occurrences(s, sep) : \A j \in Occurrences(s, sep) : i <= j

\* str.split('\n')
SplitAt(s, i) ==
    IF i = -1 THEN [head |-> s, more |-> FALSE]
    ELSE [head |-> Slice(s, 0, i), more |-> TRUE, rest |-> SliceFrom(s, i + 1)]

RECURSIVE SplitLines(_)
SplitLines(s) ==
    IF SplitAt(s, Find(s, <<"\n">>)).more
    THEN <<SplitAt(s, Find(s, <<"\n">>)).head>>
            \o SplitLines(SplitAt(s, Find(s, <<"\n">>)).rest)
    ELSE <<s>>

\* `separators = [',', ';']`
DefaultSeparators == << <<",">>, <<";">> >>

NoSeparator == [index |-> -1]

FirstSeparatorStep_Later(best, sep, index) ==
    IF index # -1 THEN [index |-> index, used |-> sep] ELSE best

\* lines 119-122: one turn of the loop over the separators
FirstSeparatorStep(best, sep, index) ==
    IF index # -1 /\ (best.index = -1 \/ index < best.index)
    THEN [index |-> index, used |-> sep]
    ELSE best

\* lines 115-122: the separator that occurs first in the line
RECURSIVE FirstSeparator(_, _, _)
FirstSeparator(line, separators, best) ==
    IF separators = <<>> THEN best
    ELSE FirstSeparator(line, Tail(separators),
                        FirstSeparatorStep(best, Head(separators),
                                           Find(line, Head(separators))))

\* lines 124-131: the email and the name of a line
SplitLine(line, sep) ==
    IF sep.index # -1
    THEN [email |-> StrStrip(Slice(line, 0, sep.index)),
          name |-> StrStrip(SliceFrom(line, sep.index + Len(sep.used)))]
    ELSE [email |-> line, name |-> <<>>]

\* lines 110-135: what one line adds to the result
ParsedLine(line, separators) ==
    IF line = <<>> THEN <<>>
    ELSE IF ValidateEmail(PyStr(SplitLine(line, FirstSeparator(line, separators,
                                                               NoSeparator)).email))
    THEN <<SplitLine(line, FirstSeparator(line, separators, NoSeparator))>>
    ELSE <<>>

RECURSIVE ParsedLines(_, _)
ParsedLines(lines, separators) ==
    IF lines = <<>> THEN <<>>
    ELSE ParsedLine(StrStrip(Head(lines)), separators)
            \o ParsedLines(Tail(lines), separators)

\* parse_emails_with_names
ParseEmailsWithNames(text, separators) ==
    IF ~text.str \/ text.chars = <<>> THEN <<>>
    ELSE ParsedLines(SplitLines(StrStrip(text.chars)), separators)

\* the pieces the texts are made of
Tokens ==
    {<<"a", "@", "b", ".", "i", "o">>, <<"x", "@", "y">>, <<"A", "n", "n">>,
     <<",">>, <<";">>, <<" ">>, <<"\n">>}

RECURSIVE Concat(_)
Concat(pieces) == IF pieces = <<>> THEN <<>> ELSE Head(pieces) \o Concat(Tail(pieces))

Texts == {PyStr(Concat(p)) : p \in SeqsUpTo(Tokens, MaxTokens)} \cup {[str |-> FALSE]}

UtilCalls ==
    [op : {"parse_emails_with_names", "extract_emails_from_text"}, text : Texts]

InitUtils ==
    /\ settings = IdemSettings
    /\ ctor = NoCall
    /\ svc = NoSvc
    /\ resend_api_key = ""
    /\ pc = "idle"
    /\ call \in UtilCalls
    /\ idx = 0
    /\ results = <<>>
    /\ successes = 0
    /\ errors = 0
    /\ outcome = Pending
    /\ log = <<>>
    /\ now = 0
    /\ instances = NoInstances
    /\ request = NoRequest
    /\ response = NoResponse
    /\ timers = <<>>
    /\ preview_update_timer = NoTimer

ParseCall ==
    /\ pc = "idle"
    /\ call.op = "parse_emails_with_names"
    /\ outcome' = Returned(ParseEmailsWithNames(call.text, DefaultSeparators))
    /\ pc' = "done"
    /\ UNCHANGED <<client, request, response, now, instances, settings, ctor, svc,
                   resend_api_key, call, idx, results, successes, errors, log>>

ExtractCall ==
    /\ pc = "idle"
    /\ call.op = "extract_emails_from_text"
    /\ outcome' = Returned(ExtractEmailsFromText(call.text))
    /\ pc' = "done"
    /\ UNCHANGED <<client, request, response, now, instances, settings, ctor, svc,
                   resend_api_key, call, idx, results, successes, errors, log>>

NextUtils == ParseCall \/ ExtractCall

SpecUtils == InitUtils /\ [][NextUtils]_vars

(***************************************************************************)
(* Vocabulary of the properties.                                           *)
(***************************************************************************)
IsErrorRecord(r) == "error" \in DOMAIN r
IsReceipt(r) == "id" \in DOMAIN r
IsParams(r) == {"from", "to", "subject", "html"} \subseteq DOMAIN r

InSend == call.op = "send"
InBatch == call.op = "send_batch"
InPersonalizedSend == call.op = "send" /\ call.personalize
InPlainSend == call.op = "send" /\ ~call.personalize
VariantValid == Validate(call.email).ok

Renders == SelectSeq(log, LAMBDA e : e.ev = "render")
Sends == SelectSeq(log, LAMBDA e : e.ev = "send")
AcceptedSends == SelectSeq(log, LAMBDA e : e.ev = "send" /\ e.ok)
SomeStepFailed == \E j \in 1..Len(log) : log[j].ev \in {"render", "send"} /\ ~log[j].ok

\* the service is in testing mode: the constructor flag or the global setting
TestingMode == pc \notin {"new", "ctor_failed"} /\ (ctor.testing \/ settings.TESTING)

\* C1: when the variant's validate() fails, send and send_batch end with an
\* error right after the validation: nothing was rendered, nothing was
\* delivered, no recipient was attempted and no result was built
C1_InvalidVariantAborts ==
    ((InSend \/ InBatch) /\ ~VariantValid)
        => /\ pc = "done"
           /\ outcome.kind = "raised"
           /\ log = <<EvValidate(FALSE)>>
           /\ results = <<>>

C1_Witness ==
    /\ InBatch /\ ~VariantValid /\ Len(call.recipients) >= 2
    /\ pc = "done" /\ outcome.kind = "raised"

\* the outcome in slot i of a personalized send belongs to recipient i
SlotOfRecipient(r, recipient) ==
    \/ /\ IsErrorRecord(r)
       /\ DOMAIN r = {"error", "email"}
       /\ r.email = recipient.email
    \/ /\ IsReceipt(r)
       /\ r.id \in 1..Len(AcceptedSends)
       /\ AcceptedSends[r.id].params.to = <<Str(recipient)>>
    \/ /\ IsParams(r)
       /\ r.to = <<Str(recipient)>>

\* C2: a personalized send over N recipients returns N outcomes, the i-th
\* being recipient i's receipt or the record {error, email} with recipient
\* i's email, and every recipient was attempted, also after a failed one
C2_OneOutcomePerRecipient ==
    (InPersonalizedSend /\ outcome.kind = "returned")
        => /\ Len(outcome.val) = Len(call.to)
           /\ \A i \in 1..Len(call.to) : SlotOfRecipient(outcome.val[i], call.to[i])
           /\ Len(Renders) = Len(call.to)
           /\ \A i \in 1..Len(call.to) : Renders[i].data.user.email = call.to[i].email

C2_Witness ==
    /\ InPersonalizedSend /\ outcome.kind = "returned"
    /\ Len(call.to) = 3
    /\ IsReceipt(outcome.val[1])
    /\ IsErrorRecord(outcome.val[2])
    /\ IsReceipt(outcome.val[3])

\* C3: in a non-personalized send, a failed render or a failed delivery
\* makes the call raise one EmailServiceError and return nothing, and the
\* call raises for no other reason once the variant is valid
C3_PlainSendFailureIsFatal ==
    (InPlainSend /\ VariantValid /\ pc = "done")
        => /\ SomeStepFailed <=> outcome.kind = "raised"
           /\ outcome.kind = "raised" =>
                /\ outcome.err.type = "EmailServiceError"
                /\ results = <<>>
                /\ Len(AcceptedSends) = 0

C3_Witness ==
    /\ InPlainSend /\ VariantValid /\ pc = "done"
    /\ Len(call.to) = 3
    /\ Len(Sends) = 1 /\ ~Sends[1].ok
    /\ outcome.kind = "raised"

\* the display forms of the addresses the caller passed as `to`
ExpectedTo ==
    IF call.toArg.list THEN StrAll(call.toArg.items) ELSE <<Str(call.toArg.addr)>>

\* C4: a non-personalized send to k >= 1 addresses renders once and calls
\* the provider at most once, with the display forms of all k addresses in
\* input order as `to`
C4_PlainSendOneMessage ==
    (InPlainSend /\ VariantValid /\ pc = "done" /\ Len(call.to) >= 1)
        => /\ Len(Renders) = 1
           /\ Len(Sends) <= 1
           /\ \A j \in 1..Len(Sends) :
                /\ Sends[j].params.to = ExpectedTo
                /\ Len(Sends[j].params.to) = Len(call.to)
           /\ (outcome.kind = "returned" /\ IsParams(outcome.val))
                => outcome.val.to = ExpectedTo

C4_Witness ==
    /\ InPlainSend /\ VariantValid /\ pc = "done"
    /\ Len(call.to) = 3 /\ call.to[1] # call.to[2]
    /\ Len(Sends) = 1 /\ Sends[1].ok

\* the entries of a batch by what the code finds in them
EntryLacksEmail(rd) == "email" \notin DOMAIN rd
EntryEmptyEmail(rd) == "email" \in DOMAIN rd /\ rd.email = ""
EntryUsable(rd) == "email" \in DOMAIN rd /\ IsEmailStr(rd.email)

\* N valid entries and among them one entry whose email is the empty string
OneEmptyAmongValid ==
    /\ Cardinality({i \in 1..Len(call.recipients) : EntryEmptyEmail(call.recipients[i])}) = 1
    /\ \A i \in 1..Len(call.recipients) :
         EntryEmptyEmail(call.recipients[i]) \/ EntryUsable(call.recipients[i])

\* C5: batch skip law as stated: with one entry whose email is "" among
\* otherwise valid entries, send_batch returns one outcome less than there
\* are entries and none of them is an error record for the dropped entry
C5_EmptyEmailIsDropped ==
    (InBatch /\ outcome.kind = "returned" /\ OneEmptyAmongValid /\ ~SomeStepFailed)
        => /\ Len(outcome.val) = Len(call.recipients) - 1
           /\ \A i \in 1..Len(outcome.val) : ~IsErrorRecord(outcome.val[i])

\* C6: an entry of a batch that has no `email` key is skipped: the step
\* that handles it adds no result, counts neither a success nor an error,
\* renders nothing, delivers nothing, and leaves the loop running
C6_EntryWithoutEmailIsSkipped ==
    [][(pc = "batch_loop" /\ idx <= Len(call.recipients)
          /\ EntryLacksEmail(call.recipients[idx]))
        => /\ results' = results
           /\ successes' = successes
           /\ errors' = errors
           /\ log' = log
           /\ pc' = "batch_loop"
           /\ idx' = idx + 1]_vars

C6_Witness ==
    /\ InBatch /\ outcome.kind = "returned"
    /\ Len(call.recipients) = 2
    /\ EntryLacksEmail(call.recipients[1])
    /\ EntryUsable(call.recipients[2])
    /\ Len(outcome.val) = 1
    /\ successes + errors = 1

\* C7: every element of the sequence send_batch returns is a receipt, the
\* constructed params (testing mode), or an error record holding both
\* `error` and `email`
C7_BatchOutcomeShape ==
    (InBatch /\ outcome.kind = "returned")
        => \A i \in 1..Len(outcome.val) :
             \/ IsReceipt(outcome.val[i])
             \/ IsParams(outcome.val[i])
             \/ {"error", "email"} \subseteq DOMAIN outcome.val[i]

\* the call is one that isolates failures per recipient and has someone to
\* attempt
InIsolatingCall ==
    \/ InPersonalizedSend /\ Len(call.to) >= 1
    \/ InBatch /\ Len(call.recipients) >= 1

AllFailed(seq) == \A i \in 1..Len(seq) : IsErrorRecord(seq[i])

\* C8: once validation has passed and there is at least one recipient, a
\* personalized send or a send_batch never raises; it runs through every
\* recipient and returns the result sequence, also when every recipient
\* failed
C8_IsolatingCallNeverRaises ==
    (InIsolatingCall /\ VariantValid)
        => /\ outcome.kind # "raised"
           /\ pc = "done" =>
                /\ outcome.kind = "returned"
                /\ outcome.val = results
                /\ idx = (IF InBatch THEN Len(call.recipients) ELSE Len(call.to)) + 1

C8_Witness ==
    /\ InBatch /\ VariantValid /\ pc = "done"
    /\ Len(call.recipients) >= 2
    /\ outcome.kind = "returned"
    /\ Len(outcome.val) = Len(call.recipients)
    /\ AllFailed(outcome.val)
    /\ Len(Sends) >= 1

\* C9 as stated: a personalized send or a send_batch with a valid variant
\* on a constructed service returns a result for every recipient sequence,
\* the empty one included
C9_ValidVariantAlwaysReturns ==
    ((InPersonalizedSend \/ InBatch) /\ VariantValid /\ pc = "done")
        => outcome.kind = "returned"

\* C9 amended: a personalized send or a send_batch fails as a whole only
\* for an invalid variant or, send_batch alone, for an empty recipient
\* sequence, and then before any recipient is attempted; every other call
\* returns a result (a personalized send to nobody returns the empty one)
C9_WholeCallFailures ==
    ((InPersonalizedSend \/ InBatch) /\ pc = "done")
        => /\ outcome.kind \in {"returned", "raised"}
           /\ outcome.kind = "raised"
                <=> (~VariantValid \/ (InBatch /\ call.recipients = <<>>))
           /\ outcome.kind = "raised"
                => /\ outcome.err.type = "EmailServiceError"
                   /\ Len(log) = 1 /\ log[1].ev = "validate"
                   /\ results = <<>>
                   /\ idx = 1

C9_Witness ==
    /\ InBatch /\ VariantValid /\ pc = "done"
    /\ call.recipients = <<>>
    /\ outcome.kind = "raised"

\* the params a testing-mode call hands back for the addresses `to`
IsConstructedParams(r, to, cc, bcc) ==
    /\ DOMAIN r = {"from", "to", "subject", "html"}
                  \cup (IF TruthySeq(cc) THEN {"cc"} ELSE {})
                  \cup (IF TruthySeq(bcc) THEN {"bcc"} ELSE {})
    /\ r.from = Str(call.from_email)
    /\ r.to = StrAll(to)
    /\ r.subject = call.subject
    /\ r.html.template = call.email.template_name
    /\ \E j \in 1..Len(Renders) : Renders[j].ok /\ r.html.data = Renders[j].data

\* C10: in testing mode (constructor flag or global TESTING setting) send
\* and send_batch never call the provider, and what is returned for each
\* message built is the constructed params of that message
C10_TestingModeNeverDelivers ==
    TestingMode
        => /\ Len(Sends) = 0
           /\ (InPlainSend /\ outcome.kind = "returned")
                => IsConstructedParams(outcome.val, call.to, call.cc, call.bcc)
           /\ (InPersonalizedSend /\ outcome.kind = "returned")
                => \A i \in 1..Len(outcome.val) :
                     \/ IsErrorRecord(outcome.val[i])
                     \/ IsConstructedParams(outcome.val[i], <<call.to[i]>>, None, None)
           /\ (InBatch /\ outcome.kind = "returned")
                => /\ \A i \in 1..Len(outcome.val) :
                        \/ IsErrorRecord(outcome.val[i])
                        \/ /\ IsParams(outcome.val[i])
                           /\ DOMAIN outcome.val[i] = {"from", "to", "subject", "html"}
                           /\ outcome.val[i].from = Str(call.from_email)
                   /\ Cardinality({i \in 1..Len(outcome.val) : IsParams(outcome.val[i])})
                        = Cardinality({j \in 1..Len(Renders) : Renders[j].ok})

C10_Witness ==
    /\ TestingMode /\ settings.TESTING /\ ~ctor.testing
    /\ InPersonalizedSend /\ outcome.kind = "returned"
    /\ Len(outcome.val) = 2
    /\ IsParams(outcome.val[1]) /\ IsParams(outcome.val[2])

\* the rendered, not inlined HTML of the render event e
IsPlainHtmlOf(html, e) ==
    /\ html.template = e.template
    /\ html.data = e.data
    /\ ~html.inlined

CtorAttempted == pc \in {"idle", "ctor_failed"}
CtorTesting == ctor.testing \/ settings.TESTING
CtorKeyAbsent == ~TruthyStr(ctor.api_key) /\ settings.RESEND_API_KEY = ""
CtorDirMissing ==
    IF ctor.templates_dir.some
    THEN ~ctor.templates_dir.val.exists
    ELSE ~settings.TEMPLATES_DIR.exists

\* C12 as stated: constructing the service fails exactly when the service
\* is not in testing mode (constructor flag or global TESTING) and the api
\* key is absent or the templates directory does not exist; in testing
\* mode it succeeds, also through get_email_service
C12_ConstructionFailsIffUnusable ==
    CtorAttempted
        => (pc = "ctor_failed"
              <=> (~CtorTesting /\ (CtorKeyAbsent \/ CtorDirMissing)))

AttemptedRecipients ==
    IF InBatch
    THEN LET done == SubSeq(call.recipients, 1, idx - 1)
             usable == SelectSeq(done, EntryUsable)
         IN [k \in 1..Len(usable) |->
               [email |-> usable[k].email,
                name |-> IF "name" \in DOMAIN usable[k] THEN usable[k].name ELSE ""]]
    ELSE [k \in 1..(idx - 1) |->
            [email |-> call.to[k].email,
             name |-> IF call.to[k].name.some THEN call.to[k].name.val ELSE ""]]

\* the name the variant itself would greet its user with
VariantDefaultName ==
    IF call.email.user.name.some /\ call.email.user.name.val # ""
    THEN call.email.user.name.val
    ELSE "Usuario"

C15_DeliveryUsesOwnKey ==
    (InSend /\ svc.constructed)
        => \A j \in 1..Len(Sends) : Sends[j].api_key = svc.api_key

\* C16: in testing mode, for each of the five variant kinds, the same
\* non-personalized send made twice returns two equal params mappings,
\* whatever time passes between the two calls
C16_RepeatedSendSameParams ==
    Len(results) = 2 => results[1] = results[2]

\* C17: validate() raises ValidationError exactly when template_name is
\* empty or the variant lacks a required field (Welcome: dashboard_url;
\* PasswordReset: reset_url, or expires_in <= 0; Notification, Alert: title
\* or message; OrderConfirmation: number, items or shipping address), returns
\* None otherwise, and reports an empty template_name before anything else
LacksRequiredField(e) ==
    \/ e.kind = "welcome" /\ e.dashboard_url = ""
    \/ e.kind = "password_reset" /\ (e.reset_url = "" \/ e.expires_in < 1)
    \/ e.kind = "notification" /\ "" \in {e.notification.title, e.notification.message}
    \/ e.kind = "alert" /\ "" \in {e.alert.title, e.alert.message}
    \/ e.kind = "order_confirmation"
         /\ (e.order.number = "" \/ Len(e.order.items) = 0
             \/ e.order.shipping_address = "")

C17_ValidateRaisesIffFieldMissing ==
    (call.op = "validate" /\ pc = "done")
        => /\ (outcome.kind = "raised")
                <=> (call.email.template_name = "" \/ LacksRequiredField(call.email))
           /\ outcome.kind = "raised" => outcome.err.type = "ValidationError"
           /\ outcome.kind # "raised" => outcome = Returned(None)
           /\ call.email.template_name = ""
                => /\ outcome.kind = "raised"
                   /\ outcome.err.msg = "template_name es requerido"

C17_Witness ==
    /\ call.op = "validate"
    /\ pc = "done"
    /\ call.email.kind = "password_reset"
    /\ call.email.template_name # ""
    /\ call.email.reset_url # ""
    /\ call.email.expires_in = 0
    /\ outcome.kind = "raised"

\* C18: the display form of an address is "name <email>" when it has a
\* non-empty name and the bare email otherwise, and the from, to, cc and bcc
\* entries of every params mapping built are the display forms of the
\* addresses the call was given
DisplayForm(name, email) ==
    IF name = "" THEN email ELSE name \o " <" \o email \o ">"

Display(a) == DisplayForm(IF a.name = None THEN "" ELSE a.name.val, a.email)

DisplayAll(addrs) == [k \in 1..Len(addrs) |-> Display(addrs[k])]

KnownDisplays ==
    {"Ann <a@x.io>", "b@x.io", "f@x.io", "Cy <c@x.io>", "d@x.io",
     "Email System <no-reply@example.com>"}

SeenParams ==
    {log[j].params : j \in {i \in 1..Len(log) : log[i].ev = "send"}}
    \cup {results[k] : k \in {i \in 1..Len(results) : IsParams(results[i])}}
    \cup (IF InPlainSend /\ outcome.kind = "returned" /\ IsParams(outcome.val)
          THEN {outcome.val} ELSE {})

AddressStrings(p) ==
    {p.from} \cup {p.to[k] : k \in 1..Len(p.to)}
    \cup (IF "cc" \in DOMAIN p THEN {p.cc[k] : k \in 1..Len(p.cc)} ELSE {})
    \cup (IF "bcc" \in DOMAIN p THEN {p.bcc[k] : k \in 1..Len(p.bcc)} ELSE {})

C18_DisplayForm ==
    (InSend \/ InBatch)
        => \A p \in SeenParams :
             /\ AddressStrings(p) \subseteq KnownDisplays
             /\ p.from = Display(call.from_email)
             /\ InPlainSend
                  => /\ p.to = DisplayAll(call.to)
                     /\ "cc" \in DOMAIN p => p.cc = DisplayAll(call.cc.val)
                     /\ "bcc" \in DOMAIN p => p.bcc = DisplayAll(call.bcc.val)
             /\ ~InPlainSend
                  => /\ Len(p.to) = 1
                     /\ \E k \in 1..Len(AttemptedRecipients) :
                          p.to[1] = DisplayForm(AttemptedRecipients[k].name,
                                                AttemptedRecipients[k].email)

C18_Witness ==
    /\ InPlainSend
    /\ pc = "done"
    /\ Len(Sends) = 1
    /\ call.from_email = Sender
    /\ Sends[1].params.from = "f@x.io"
    /\ Sends[1].params.to = <<"Ann <a@x.io>", "b@x.io">>
    /\ "cc" \in DOMAIN Sends[1].params
    /\ Sends[1].params.cc = <<"Cy <c@x.io>">>
    /\ Sends[1].params.bcc = <<"d@x.io">>

\* C19: in every call of send and of send_batch validate() is called
\* exactly once, and before any call of get_template_data or of the
\* renderer, however many recipients there are
C19_ValidatedOnceFirst ==
    (InSend \/ InBatch)
        => /\ Count(log, "validate") = 1
           /\ log[1].ev = "validate"
           /\ \A j \in 1..Len(log) :
                log[j].ev \in {"get_template_data", "render", "inline", "send"}
                    => /\ j > 1
                       /\ log[1].ok

C19_Witness ==
    /\ InPersonalizedSend
    /\ pc = "done"
    /\ Len(call.to) = 3
    /\ Len(Renders) = 3
    /\ Count(log, "get_template_data") = 3
    /\ Count(log, "validate") = 1

\* C20: in personalized send and in send_batch every attempted recipient
\* goes through render, inline and at most one delivery, in this order, and
\* ends delivered or failed: no delivery follows a failed render, no
\* delivery is tried twice, nothing is done for a recipient after it ended,
\* and the next recipient starts only when the current one has ended
Terminal(e) ==
    \/ e.ev = "render" /\ ~e.ok
    \/ e.ev = "send"
    \/ e.ev = "inline" /\ svc.testing

\* the place in the log of the k-th render
RenderPos(k) ==
    CHOOSE j \in 1..Len(log) :
        /\ log[j].ev = "render"
        /\ Cardinality({i \in 1..j : log[i].ev = "render"}) = k

\* the k-th attempted recipient ended FAILED
EndedFailed(k) ==
    LET j == RenderPos(k)
    IN \/ ~log[j].ok
       \/ j + 2 <= Len(log) /\ log[j + 2].ev = "send" /\ ~log[j + 2].ok

C20_RecipientPipeline ==
    ((InPersonalizedSend \/ InBatch) /\ VariantValid)
        => /\ \A j \in 2..Len(log) :
                /\ log[j].ev \in {"get_template_data", "render", "inline", "send"}
                /\ log[j].ev = "get_template_data"
                     => (j = 2 \/ Terminal(log[j - 1]))
                /\ log[j].ev = "render" => log[j - 1].ev = "get_template_data"
                /\ log[j].ev = "inline"
                     => (log[j - 1].ev = "render" /\ log[j - 1].ok)
                /\ log[j].ev = "send"
                     => /\ ~svc.testing
                        /\ log[j - 1].ev = "inline"
                        /\ log[j].params.html.data = log[j - 2].data
                /\ (Terminal(log[j]) /\ j < Len(log))
                     => log[j + 1].ev = "get_template_data"
           /\ Len(log) > 1 => Terminal(log[Len(log)])
           /\ Len(Renders) = Len(AttemptedRecipients)
           /\ \A k \in 1..Len(Renders) :
                Renders[k].data.user.email = AttemptedRecipients[k].email
           /\ InPersonalizedSend
                => /\ Len(results) = Len(Renders)
                   /\ \A k \in 1..Len(results) :
                        IsErrorRecord(results[k]) <=> EndedFailed(k)

C20_Witness ==
    /\ InBatch
    /\ pc = "done"
    /\ Len(Renders) = 3
    /\ ~Renders[1].ok
    /\ Len(Sends) = 2
    /\ ~Sends[1].ok
    /\ Sends[2].ok
    /\ Len(log) = 11

\* C21: all through a send_batch run successes + errors is the length of
\* the result sequence built so far; successes counts the receipts and the
\* testing-mode params, errors counts the error records whatever raised
\* them, and an entry without email adds to neither counter
ProcessedEntries == SubSeq(call.recipients, 1, idx - 1)

C21_CountersMatchResults ==
    ((InBatch /\ VariantValid /\ ~NoRecipients(call.recipients))
        => /\ successes + errors = Len(results)
           /\ successes = Cardinality({k \in 1..Len(results) :
                              IsReceipt(results[k]) \/ IsParams(results[k])})
           /\ errors = Cardinality({k \in 1..Len(results) : IsErrorRecord(results[k])})
           /\ Len(results) = Len(SelectSeq(ProcessedEntries,
                                           LAMBDA e : "email" \in DOMAIN e))
           /\ outcome.kind = "returned" => outcome.val = results)

C21_Witness ==
    /\ InBatch
    /\ pc = "done"
    /\ Len(call.recipients) = 3
    /\ \E k \in 1..3 : "email" \notin DOMAIN call.recipients[k]
    /\ successes = 1
    /\ errors = 1
    /\ Len(results) = 2

\* a request has been answered
Responded == pc = "responded" /\ request.route # "none"

\* the X-API-Key header of the request is not the configured API_KEY
WrongKey == request.key # settings.API_KEY

\* the service was not called: no send or send_batch was entered, nothing
\* was rendered and nothing was handed to the provider
NoServiceCall == call = NoCall /\ log = <<>>

\* C22: on every email route a request whose X-API-Key differs from the
\* configured API_KEY is answered with HTTP 403, and neither send nor
\* send_batch is called for it
C22_WrongKeyForbidden ==
    (Responded /\ WrongKey) => (response.status = 403 /\ NoServiceCall)

\* the part of C22 the routes do satisfy: a request with a wrong key never
\* reaches the service
C22_WrongKeyNoServiceCall ==
    (request.route # "none" /\ WrongKey) => NoServiceCall

\* a wrong key answered with the HTTP 500 of get_email_service
C22_WrongKeyAnswered500 ==
    /\ Responded
    /\ WrongKey
    /\ settings.RESEND_API_KEY = ""
    /\ response.status = 500

\* the timers of the window that are pending
PendingTimers == {t \in DOMAIN timers : timers[t].active}

IsFormChanged(k) == log[k].ev = "form_changed"
IsUpdatePreview(k) == log[k].ev = "update_preview"

\* the last event of the window is a form change whose update is still to come
UpdateOwed == log # <<>> /\ IsFormChanged(Len(log))

\* the last event of the window is a preview update
UpdateDone == log # <<>> /\ IsUpdatePreview(Len(log))

\* at most one timer is pending, the one the window refers to; a preview
\* update directly follows a form change made at least 500 ms before it, so
\* no update falls between two changes less than 500 ms apart and no two
\* updates follow the same change
C23_OneTimerOneUpdate ==
    /\ Cardinality(PendingTimers) <= 1
    /\ PendingTimers \subseteq {preview_update_timer}
    /\ \A k \in 1..Len(log) :
         IsUpdatePreview(k)
            => /\ k > 1
               /\ IsFormChanged(k - 1)
               /\ log[k].at >= log[k - 1].at + 500
    /\ \A j \in 1..Len(log), k \in 1..Len(log) :
         (j < k /\ IsFormChanged(j) /\ IsFormChanged(k)
               /\ \A m \in (j + 1)..(k - 1) : ~IsFormChanged(m)
               /\ log[k].at - log[j].at < 500)
            => k = j + 1

UtilReturned(op) == call.op = op /\ pc = "done"

\* the text of the call cut at every newline
TextLines == IF call.text.str THEN SplitLines(call.text.chars) ELSE <<>>

\* the position of the first ',' or ';' of a line, 0 when it has none
CutOf(line) ==
    IF \E i \in 1..Len(line) : line[i] \in {",", ";"}
    THEN CHOOSE i \in 1..Len(line) :
            /\ line[i] \in {",", ";"}
            /\ \A j \in 1..(i - 1) : line[j] \notin {",", ";"}
    ELSE 0

EmailPart(line) ==
    IF CutOf(line) = 0 THEN StrStrip(line)
    ELSE StrStrip(SubSeq(line, 1, CutOf(line) - 1))

NamePart(line) ==
    IF CutOf(line) = 0 THEN <<>>
    ELSE StrStrip(SubSeq(line, CutOf(line) + 1, Len(line)))

\* the lines that are not blank and whose email part is a valid address
GoodLines ==
    SelectSeq(TextLines,
              LAMBDA l : StrStrip(l) # <<>> /\ ValidateEmail(PyStr(EmailPart(l))))

\* C24: parse_emails_with_names returns, in line order, one (email, name)
\* pair for each non-blank line whose email part is a valid address and
\* nothing for the other lines; the line is cut at the first ',' or ';' it
\* holds, the email is the trimmed text before the cut and the name the
\* trimmed text after it, and a line without separator is all email with
\* an empty name
C24_ParsedPairs ==
    UtilReturned("parse_emails_with_names")
        => outcome.val = [k \in 1..Len(GoodLines) |->
                             [email |-> EmailPart(GoodLines[k]),
                              name |-> NamePart(GoodLines[k])]]

\* "a@b.io;Ann," : the ';' comes first in the line although ',' is the
\* first separator of the list, and the name keeps the later ','
C24_Witness ==
    /\ UtilReturned("parse_emails_with_names")
    /\ call.text = PyStr(<<"a", "@", "b", ".", "i", "o", ";", "A", "n", "n", ",">>)
    /\ outcome.val = <<[email |-> <<"a", "@", "b", ".", "i", "o">>,
                        name |-> <<"A", "n", "n", ",">>]>>

\* two lines, the first with a name and the second without
C24_WitnessTwoLines ==
    /\ UtilReturned("parse_emails_with_names")
    /\ Len(outcome.val) = 2
    /\ outcome.val[1].name = <<"A", "n", "n">>
    /\ outcome.val[2].name = <<>>

\* str.split(): the words of a text, cut at its whitespace
RECURSIVE Words(_)
Words(s) ==
    IF LStrip(s) = <<>> THEN <<>>
    ELSE IF \E i \in 1..Len(LStrip(s)) : IsSpace(LStrip(s)[i])
    THEN <<SubSeq(LStrip(s), 1,
                  (CHOOSE i \in 1..Len(LStrip(s)) :
                      /\ IsSpace(LStrip(s)[i])
                      /\ \A j \in 1..(i - 1) : ~IsSpace(LStrip(s)[j])) - 1)>>
            \o Words(SubSeq(LStrip(s),
                            CHOOSE i \in 1..Len(LStrip(s)) :
                               /\ IsSpace(LStrip(s)[i])
                               /\ \A j \in 1..(i - 1) : ~IsSpace(LStrip(s)[j]),
                            Len(LStrip(s))))
    ELSE <<LStrip(s)>>

\* C25: extract_emails_from_text returns every address found in the text:
\* for a text of whitespace-separated words the words that are valid
\* addresses, in order of appearance, and the empty list for an empty text
\* or a value that is not a string
C25_ExtractsEveryAddress ==
    UtilReturned("extract_emails_from_text")
        => outcome.val = IF call.text.str
                         THEN SelectSeq(Words(call.text.chars),
                                        LAMBDA w : ValidateEmail(PyStr(w)))
                         ELSE <<>>

\* a text of two addresses of which none is returned
C25_TwoAddressesNoneFound ==
    /\ UtilReturned("extract_emails_from_text")
    /\ call.text = PyStr(<<"a", "@", "b", ".", "i", "o", " ",
                            "a", "@", "b", ".", "i", "o">>)
    /\ outcome.val = <<>>

\* the caller passed a list of copies that is not empty
Passed(copies) == copies.some /\ copies.val # <<>>

\* C26: the params of send without personalization carry a cc (resp. bcc)
\* key exactly when the caller passed a non-empty cc (resp. bcc) list, with
\* the addresses in input order; the per-recipient params of a personalized
\* send and of send_batch never carry a cc or bcc key
C26_CopiesOnlyInPlainSend ==
    (InSend \/ InBatch)
        => \A p \in SeenParams :
             IF InPlainSend
             THEN /\ "cc" \in DOMAIN p <=> Passed(call.cc)
                  /\ "bcc" \in DOMAIN p <=> Passed(call.bcc)
                  /\ "cc" \in DOMAIN p => p.cc = DisplayAll(call.cc.val)
                  /\ "bcc" \in DOMAIN p => p.bcc = DisplayAll(call.bcc.val)
             ELSE "cc" \notin DOMAIN p /\ "bcc" \notin DOMAIN p

\* a plain send given an empty cc list and one bcc address: its params have
\* a bcc key and no cc key
C26_Witness ==
    /\ InPlainSend
    /\ call.cc = Some(<<>>)
    /\ call.bcc = Some(<<CcD>>)
    /\ \E p \in SeenParams : "cc" \notin DOMAIN p /\ p.bcc = <<"d@x.io">>

\* a personalized send given two cc addresses: the params of its two
\* recipients have neither key
C26_WitnessPersonalized ==
    /\ InPersonalizedSend
    /\ call.cc = Some(<<CcC, CcD>>)
    /\ pc = "done"
    /\ Cardinality(SeenParams) = 2

\* /batch has answered with the counts of a send_batch that returned
BatchAnswered == Responded /\ request.route = "batch" /\ response.status = 200

\* C27: the response of /batch satisfies sent + failed = total = the length
\* of the sequence send_batch returned, and sent is the number of
\* recipients the service counted as successes, in production mode and in
\* testing mode alike
C27_BatchCounts ==
    BatchAnswered
        => /\ response.body.sent + response.body.failed = response.body.total
           /\ response.body.total = Len(outcome.val)
           /\ response.body.sent = successes

\* what the route does satisfy: the sums, and sent = successes in
\* production mode
C27_BatchCountsProduction ==
    BatchAnswered
        => /\ response.body.sent + response.body.failed = response.body.total
           /\ response.body.total = Len(outcome.val)
           /\ ~svc.testing => response.body.sent = successes

\* a testing-mode batch of two recipients, both counted as successes by the
\* service and both reported as failed by the route
C27_TestingReportsFailed ==
    /\ BatchAnswered
    /\ svc.testing
    /\ successes = 2
    /\ response.body = [status |-> "success", sent |-> 0, failed |-> 2, total |-> 2]

\* the user.name a recipient entry of a batch is to be greeted with
OwnNameOrPlaceholder(entry) ==
    IF "name" \in DOMAIN entry /\ entry.name # "" THEN entry.name ELSE "Usuario"

\* C28: in a /batch request the user.name of the template data rendered for
\* a recipient is that recipient's own name when it gave a non-empty one and
\* the placeholder "Usuario" otherwise, never the name of another recipient
\* of the batch
C28_OwnNameRendered ==
    (request.route = "batch" /\ InBatch)
        => \A j \in 1..Len(Renders) :
             \E k \in 1..Len(call.recipients) :
                /\ HasEmail(call.recipients[k])
                /\ call.recipients[k].email = Renders[j].data.user.email
                /\ Renders[j].data.user.name = OwnNameOrPlaceholder(call.recipients[k])

\* the second recipient, who gave no name, is greeted with the name of the
\* first
C28_FirstNameLeaks ==
    /\ request.route = "batch"
    /\ InBatch
    /\ call.recipients = <<[email |-> "a@x.io", name |-> "Ann"], [email |-> "b@x.io"]>>
    /\ Len(Renders) = 2
    /\ Renders[2].data.user = [name |-> "Ann", email |-> "b@x.io"]

\* both dependencies of the route were resolved
DependenciesResolved == svc # NoSvc /\ ~WrongKey

\* a recipient entry without email, or with one that is not an address
BadEntry(entry) == ~HasEmail(entry) \/ ~IsEmailStr(entry.email)

\* C29: in a /batch request the first recipient entry is used to build the
\* content variant before send_batch is called: when it has no email or an
\* invalid one the request fails with HTTP 500 and no recipient is
\* attempted, whatever the later entries are; a later entry without email
\* or with an invalid one does not fail the request
C29_FirstEntryDecides ==
    (Responded /\ request.route = "batch" /\ DependenciesResolved
        /\ request.recipients # <<>>)
        => IF BadEntry(request.recipients[1])
           THEN response.status = 500 /\ NoServiceCall
           ELSE (InBatch /\ VariantValid) => response.status = 200

\* the first entry has no email and the second is valid: HTTP 500, nobody
\* attempted
C29_Witness ==
    /\ Responded
    /\ request.route = "batch"
    /\ DependenciesResolved
    /\ request.email_type = "welcome"
    /\ request.company.some
    /\ DictHas(request.query, "dashboard_url")
    /\ request.recipients = <<[name |-> "Bob"], [email |-> "a@x.io", name |-> "Ann"]>>
    /\ response.status = 500
    /\ NoServiceCall

\* the same two entries the other way round: HTTP 200, the entry without
\* email is skipped
C29_WitnessLaterEntry ==
    /\ Responded
    /\ request.route = "batch"
    /\ request.recipients = <<[email |-> "a@x.io", name |-> "Ann"], [name |-> "Bob"]>>
    /\ response.status = 200
    /\ response.body.total = 1

\* one of /welcome, /password-reset, /notification, /alert has called send
SingleSent ==
    /\ Responded
    /\ request.route \in {"welcome", "password-reset", "notification", "alert"}
    /\ InSend

\* the name given for the i-th email of a request with several recipients
NameGiven(user, i) ==
    IF user.names.some /\ i <= Len(user.names.val)
    THEN Some(user.names.val[i]) ELSE None

\* the recipients of the request, in input order
RequestedRecipients ==
    IF request.user.multi
    THEN [i \in 1..Len(request.user.emails) |->
            EmailAddress(request.user.emails[i], NameGiven(request.user, i))]
    ELSE <<EmailAddress(request.user.email, request.user.name)>>

\* C30: a single-variant route given k >= 1 recipients calls send once,
\* without personalization: at most one message is handed to the provider,
\* its `to` holds the k addresses in input order, the i-th name paired with
\* the i-th email (no name where the names list is shorter), the content is
\* rendered once with the first recipient as user, and the response carries
\* the id of that one message
C30_OneMessageForAll ==
    SingleSent
        => /\ ~call.personalize
           /\ call.to = RequestedRecipients
           /\ Len(Renders) <= 1
           /\ \A j \in 1..Len(Renders) :
                Renders[j].data.user
                    = [name |-> IF TruthyStr(RequestedRecipients[1].name)
                                THEN RequestedRecipients[1].name.val ELSE "Usuario",
                       email |-> RequestedRecipients[1].email]
           /\ Len(Sends) <= 1
           /\ \A j \in 1..Len(Sends) : Sends[j].params.to = DisplayAll(RequestedRecipients)
           /\ response.status = 200
                => IF svc.testing
                   THEN Sends = <<>> /\ response.body.message_id = None
                   ELSE /\ Len(AcceptedSends) = 1
                        /\ response.body.message_id = Some(outcome.val.id)

\* two emails and one name, in production mode: one message to both, the
\* second without name, rendered for the first
C30_Witness ==
    /\ SingleSent
    /\ request.user.multi
    /\ request.user.emails = <<"b@x.io", "a@x.io">>
    /\ request.user.names = Some(<<"Ann">>)
    /\ Len(AcceptedSends) = 1
    /\ AcceptedSends[1].params.to = <<"Ann <b@x.io>", "a@x.io">>
    /\ Renders[1].data.user = [name |-> "Ann", email |-> "b@x.io"]
    /\ response.status = 200
    /\ response.body.message_id = Some(1)

====
